---------------------------- MODULE Spec2Model ----------------------------
(***************************************************************************)
(* A model of SpringMagic's PhaserCore (src/core/phaser.py) and of the two *)
(* operators that drive it (src/operators.py).                             *)
(*                                                                         *)
(* Bones are the numbers 1..NB; parent[b] = NoBone (0) is a bone without   *)
(* parent.  The children of a bone are listed in declaration order, which  *)
(* is the order of the bone numbers.                                       *)
(***************************************************************************)
EXTENDS Integers, Sequences, FiniteSets, TLC

\* ------------------------------------------------------------------ bounds
NB == 4              \* bones of an armature
MaxFrame == 3        \* last frame of the scene's timeline
MaxSub == 2          \* largest sub_steps setting tried
WDen == 2            \* weights are the fractions 0/WDen .. WDen/WDen

NoBone == 0
Bones == 1..NB

VARIABLES
    parent,          \* the armature: bone -> parent bone, or NoBone
    selected,        \* the list of bones handed to get_tree_list
    obj_trees,       \* the chains get_tree_list built, in creation order
    pc,              \* position of the caller
    host,            \* the scene: frame, channels, matrices, F-curves, call log
    core,            \* the PhaserCore object's fields
    sjps,            \* context.scene.sj_phaser_props and the frame range
    op,              \* the operator that runs: "calc", "del" or "none"
    result,          \* what execute returned, "" while it runs
    reports,         \* the messages handed to self.report
    pose_match_cache,\* the operator's pose_match_cache
    fi, si, ci,      \* execute_simulation: frame, sub-step, chain position
    host0            \* the scene before the operator ran

runVars == <<host, core, sjps, op, result, reports, pose_match_cache,
             fi, si, ci, host0>>
vars == <<parent, selected, obj_trees, pc, host, core, sjps, op, result,
          reports, pose_match_cache, fi, si, ci, host0>>

\* ------------------------------------------------------------ sequences
InSeq(seq, x) == \E i \in DOMAIN seq : seq[i] = x

RECURSIVE SortedSeq(_)
SortedSeq(S) ==
    IF S = {} THEN <<>>
    ELSE LET m == CHOOSE x \in S : \A y \in S : x <= y
         IN  <<m>> \o SortedSeq(S \ {m})

RECURSIVE FilterSeq(_, _)
\* the elements of seq that are in the set Keep, in the order of seq
FilterSeq(seq, Keep) ==
    IF seq = <<>> THEN <<>>
    ELSE (IF Head(seq) \in Keep THEN <<Head(seq)>> ELSE <<>>)
             \o FilterSeq(Tail(seq), Keep)

\* ------------------------------------------------------------ the armature
\* pbn.children: the bones whose parent is b, in declaration order
Children(par, b) == SortedSeq({c \in DOMAIN par : par[c] = b})

RECURSIVE get_hierarchy_depth(_, _)
get_hierarchy_depth(par, b) ==
    IF par[b] = NoBone THEN 0 ELSE 1 + get_hierarchy_depth(par, par[b])

\* ---------------------------------------------------------- get_tree_list
\* the chain state of one tree, as _create_data_structure leaves it
create_data_structure(tree) ==
    [obj_list |-> tree, pre_mt |-> <<>>, obj_length |-> <<>>,
     old_vec |-> <<>>, old_tip |-> <<>>]

is_root_firstchild_dropped(par, sel, b) ==
    par[b] # NoBone /\ ~InSeq(sel, par[b])

\* the parent counts as selected only when the list names it before b
is_root_seen_so_far(par, sel, b) ==
    LET k == IF InSeq(sel, b) THEN CHOOSE j \in DOMAIN sel : sel[j] = b ELSE 1
    IN  /\ par[b] # NoBone
        /\ \/ ~InSeq(SubSeq(sel, 1, k - 1), par[b])
           \/ Children(par, par[b])[1] # b

\* the test of the first loop of get_tree_list
is_root(par, sel, b) ==
    /\ par[b] # NoBone
    /\ \/ ~InSeq(sel, par[b])
       \/ Children(par, par[b])[1] # b

tree_roots(par, sel) ==
    FilterSeq(sel, {b \in DOMAIN par : is_root(par, sel, b)})

RECURSIVE walk_unselected(_, _, _, _)
walk_unselected(par, sel, tree, c_obj) ==
    LET t2 == Append(tree, c_obj)
    IN  IF Len(Children(par, c_obj)) = 0 THEN t2
        ELSE walk_unselected(par, sel, t2, Children(par, c_obj)[1])

RECURSIVE walk(_, _, _, _)
\* the while loop of get_tree_list: follow the first child while selected
walk(par, sel, tree, c_obj) ==
    IF ~InSeq(sel, c_obj) THEN tree
    ELSE LET t2 == Append(tree, c_obj)
         IN  IF Len(Children(par, c_obj)) = 0 THEN t2
             ELSE walk(par, sel, t2, Children(par, c_obj)[1])

build_tree(par, sel, root_obj) ==
    IF Len(Children(par, root_obj)) = 0 THEN <<root_obj>>
    ELSE walk(par, sel, <<root_obj>>, Children(par, root_obj)[1])

\* obj_trees as the list of its chains in creation order; the dictionary
\* obj_trees[depth][name] is read off the fields depth and name (t_cnt)
get_tree_list(par, sel) ==
    IF sel = <<>> THEN <<>>
    ELSE LET roots == tree_roots(par, sel)
         IN  [i \in 1..Len(roots) |->
                 [depth |-> get_hierarchy_depth(par, roots[i]),
                  name  |-> i - 1]
                 @@ create_data_structure(build_tree(par, sel, roots[i]))]

\* ------------------------------------------------------------ numbers
\* One space dimension.  A length 1.0 is Unit, so that a weighted mean of
\* two positions is again a whole number; a unit vector is PDen.
Unit == WDen * WDen
PDen == 10 * 10 * 10
ScaleOne == Unit

Abs(x) == IF x < 0 THEN 0 - x ELSE x
Sign(x) == IF x > 0 THEN 1 ELSE IF x < 0 THEN 0 - 1 ELSE 0
Max(a, b) == IF a >= b THEN a ELSE b
\* float division a / b (b > 0), rounded towards zero
Quot(a, b) == Sign(a) * (Abs(a) \div b)

\* self.bake_weight < 0.999  (and >= 0.999), for a weight w/WDen
below_999(w) == w * 1000 < 999 * WDen

\* ------------------------------------------------------------ transforms
\* A 4x4 matrix is its translation along the line and the direction (+1 or
\* -1) of its Y axis; every scale is 1.0 and roll about Y is not tracked.
Mt(p, d) == [pos |-> p, dir |-> d]
MtIdentity == Mt(0, 1)
\* a @ b
MtMul(a, b) == Mt(a.pos + a.dir * b.pos, a.dir * b.dir)
\* a.inverted()
MtInv(a) == Mt(0 - a.dir * a.pos, a.dir)

\* ------------------------------------------------------------ rotations
\* Rotations about one axis.  A quaternion is its half angle in steps of
\* 90/Q degrees, modulo a full circle of 4Q steps (h and h + 2Q are q and
\* -q); an Euler angle is a whole number of steps of 180/Q degrees and is
\* not reduced: it may hold several turns.
Q == WDen
QN == 4 * Q
QIdentity == 0
QMul(a, b) == (a + b) % QN
QInv(a) == (QN - a) % QN
\* Euler.to_quaternion()
euler_to_quaternion(e) == e % QN
\* Quaternion.to_euler(order): the angle in (-180, 180] degrees
quaternion_to_euler(h) ==
    LET r == h % (2 * Q) IN IF r <= Q THEN r ELSE r - 2 * Q
\* the Y direction of a rotation that is a whole number of half turns
QuatDir(h) == IF (h \div Q) % 2 = 0 THEN 1 ELSE 0 - 1
EulerDir(e) == IF (e \div Q) % 2 = 0 THEN 1 ELSE 0 - 1
\* the rotation of a matrix: mat3_to_quat / mat3_to_eulO give the principal
\* value
DirToQuat(d) == IF d = 1 THEN 0 ELSE Q
DirToEuler(d) == IF d = 1 THEN 0 ELSE Q

\* Vector.lerp(other, w/WDen)
lerp(a, b, w) == a + ((b - a) * w) \div WDen
\* Quaternion.slerp(other, w/WDen): the shorter arc, the first quaternion
\* negated when the dot product is negative
slerp(h1, h2, w) ==
    LET d0   == (h2 - h1) % QN
        neg  == d0 > Q /\ d0 < 3 * Q
        from == IF neg THEN (h1 + 2 * Q) % QN ELSE h1
        d1   == (h2 - from) % QN
        arc  == IF d1 <= Q THEN d1 ELSE d1 - QN
    IN  (from + (arc * w) \div WDen) % QN

\* ------------------------------------------------------------ blending
Channels == {"location", "rotation_euler", "rotation_quaternion", "scale"}

\* the two poses taken in the wrong order
blend_override_swapped(existing, spring, weight) ==
    [location |-> lerp(spring.location, existing.location, weight),
     rotation_quaternion |->
         slerp(spring.rotation_quaternion, existing.rotation_quaternion, weight),
     rotation_euler |->
         quaternion_to_euler(slerp(euler_to_quaternion(spring.rotation_euler),
                                   euler_to_quaternion(existing.rotation_euler),
                                   weight)),
     scale |-> lerp(spring.scale, existing.scale, weight)]

blend_override(existing, spring, weight) ==
    [location |-> lerp(existing.location, spring.location, weight),
     rotation_quaternion |->
         slerp(existing.rotation_quaternion, spring.rotation_quaternion, weight),
     rotation_euler |->
         quaternion_to_euler(slerp(euler_to_quaternion(existing.rotation_euler),
                                   euler_to_quaternion(spring.rotation_euler),
                                   weight)),
     scale |-> lerp(existing.scale, spring.scale, weight)]

blend_additive(existing, spring, base, weight) ==
    LET delta_loc  == spring.location - base.location
        delta_quat == QMul(spring.rotation_quaternion,
                           QInv(base.rotation_quaternion))
        weighted_delta == slerp(QIdentity, delta_quat, weight)
        delta_euler_quat == QMul(euler_to_quaternion(spring.rotation_euler),
                                 QInv(euler_to_quaternion(base.rotation_euler)))
        weighted_euler_delta == slerp(QIdentity, delta_euler_quat, weight)
        delta_scale == IF base.scale # 0
                       THEN Quot(spring.scale * ScaleOne, base.scale)
                       ELSE ScaleOne
        weighted_scale_factor == lerp(ScaleOne, delta_scale, weight)
    IN  [location |-> existing.location + (delta_loc * weight) \div WDen,
         rotation_quaternion |-> QMul(weighted_delta, existing.rotation_quaternion),
         rotation_euler |->
             quaternion_to_euler(
                 QMul(weighted_euler_delta,
                      euler_to_quaternion(existing.rotation_euler))),
         scale |-> Quot(existing.scale * weighted_scale_factor, ScaleOne)]

\* ------------------------------------------------------------ the host
\* The scene as a record H: frame (frame_current), chan (every bone's
\* location, rotations and scale), mat (every bone's evaluated armature
\* space matrix, as of the last evaluation), keys (the F-curves: bone ->
\* channel -> frame -> keyed value or NoKey) and rotation_mode.
NoKey == 0 - 1000000
KeyFrames == 0..MaxFrame
BoneLength == Unit
\* context.active_object.matrix_world
amt_world == Mt(2 * Unit, 1)

\* a child's head sits on its parent's tail
RestOffset(b) == IF parent[b] = NoBone THEN MtIdentity ELSE Mt(BoneLength, 1)

RotDir(H, b) ==
    IF H.rotation_mode = "QUATERNION"
    THEN QuatDir(H.chan[b].rotation_quaternion)
    ELSE EulerDir(H.chan[b].rotation_euler)

RECURSIVE PoseMt(_, _)
\* the armature space matrix of bone b, from the channels
PoseMt(H, b) ==
    LET local == Mt(H.chan[b].location, RotDir(H, b))
    IN  IF parent[b] = NoBone THEN local
        ELSE MtMul(MtMul(PoseMt(H, parent[b]), RestOffset(b)), local)

\* one entry of the host's call log: the call, its bone (or NoBone), the
\* frame it names and the caller's mark at the time
Event(H, ev, b, f) == [ev |-> ev, b |-> b, f |-> f, mark |-> H.mark]
Logged(H, ev, b, f) == [H EXCEPT !.log = Append(@, Event(H, ev, b, f))]

\* context.view_layer.update(): every bone's matrix is evaluated again
view_layer_update(H) ==
    Logged([H EXCEPT !.mat = [b \in Bones |-> PoseMt(H, b)]],
           "update", NoBone, H.frame)

KeyedFrames(H, b, ch) == {g \in KeyFrames : H.keys[b][ch][g] # NoKey}

\* an F-curve at frame f: the key at f, else the last key before f, else
\* the first key (constant interpolation)
FCurveValue(H, b, ch, f) ==
    LET K      == KeyedFrames(H, b, ch)
        before == {g \in K : g <= f}
        at     == IF before # {}
                  THEN CHOOSE g \in before : \A x \in before : x <= g
                  ELSE CHOOSE g \in K : \A x \in K : g <= x
    IN  H.keys[b][ch][at]

\* context.scene.frame_set(f): the animated channels take their F-curve
\* values at f, the others keep their value, and the pose is evaluated
frame_set(H, f) ==
    LET H1 == [H EXCEPT !.frame = f,
                        !.chan = [b \in Bones |-> [ch \in Channels |->
                                     IF KeyedFrames(H, b, ch) # {}
                                     THEN FCurveValue(H, b, ch, f)
                                     ELSE H.chan[b][ch]]]]
    IN  Logged([H1 EXCEPT !.mat = [b \in Bones |-> PoseMt(H1, b)]],
               "frame_set", NoBone, f)

\* the four keyframe_insert calls of one bone at frame f
keyframe_insert_all(H, b, f) ==
    Logged([H EXCEPT !.keys[b] = [ch \in Channels |->
                                    [H.keys[b][ch] EXCEPT ![f] = H.chan[b][ch]]]],
           "key", b, f)

\* the data paths in the order the core deletes them
DeleteOrder == <<"location", "rotation_euler", "rotation_quaternion", "scale">>

\* the four keyframe_delete calls of one bone at frame f inside one try
\* block (a frame outside the timeline has no key).  A host that rejects
\* the deletion of a key that is not there (H.rejects) raises RuntimeError
\* at the first such channel, and the calls after it are not made.
keyframe_delete_all(H, b, f) ==
    LET missing == {i \in DOMAIN DeleteOrder :
                       H.keys[b][DeleteOrder[i]][f] = NoKey}
        made == IF H.rejects /\ missing # {}
                THEN {DeleteOrder[i] : i \in {j \in DOMAIN DeleteOrder :
                                                 \A m \in missing : j < m}}
                ELSE Channels
    IN  Logged(IF f \notin KeyFrames THEN H
               ELSE [H EXCEPT !.keys[b] = [ch \in Channels |->
                                              IF ch \in made
                                              THEN [H.keys[b][ch] EXCEPT ![f] = NoKey]
                                              ELSE H.keys[b][ch]]],
               "delete", b, f)

\* pbn.matrix = M: the channels are computed against the parent's matrix as
\* last evaluated; the bone's own evaluated matrix is not refreshed
set_bone_matrix(H, b, M) ==
    LET base  == IF parent[b] = NoBone THEN MtIdentity
                 ELSE MtMul(H.mat[parent[b]], RestOffset(b))
        local == MtMul(MtInv(base), M)
    IN  Logged([H EXCEPT !.chan[b] =
                   [location |-> local.pos,
                    rotation_quaternion |->
                        IF H.rotation_mode = "QUATERNION"
                        THEN DirToQuat(local.dir)
                        ELSE H.chan[b].rotation_quaternion,
                    rotation_euler |->
                        IF H.rotation_mode = "QUATERNION"
                        THEN H.chan[b].rotation_euler
                        ELSE DirToEuler(local.dir),
                    scale |-> ScaleOne]],
               "write", b, H.frame)

\* ------------------------------------------------ iterating over obj_trees
\* the depths in the order the dictionary got them (first appearance)
RECURSIVE DepthKeys(_)
DepthKeys(trees) ==
    IF trees = <<>> THEN <<>>
    ELSE LET front == DepthKeys(SubSeq(trees, 1, Len(trees) - 1))
             d     == trees[Len(trees)].depth
         IN  IF InSeq(front, d) THEN front ELSE Append(front, d)

\* the chains (as indexes into trees) of the depths ks, depth by depth and
\* in creation order within a depth
RECURSIVE TreesOfDepths(_, _)
TreesOfDepths(trees, ks) ==
    IF ks = <<>> THEN <<>>
    ELSE SortedSeq({i \in DOMAIN trees : trees[i].depth = Head(ks)})
             \o TreesOfDepths(trees, Tail(ks))

\* for k in obj_trees: for t in obj_trees[k]
dict_order(trees) == TreesOfDepths(trees, DepthKeys(trees))

\* the simulation's loop without the sort: the depths as the dictionary
\* holds them
unsorted_order(trees) == TreesOfDepths(trees, DepthKeys(trees))

\* for k in sorted(obj_trees.keys()): for t in obj_trees[k]
sorted_order(trees) ==
    TreesOfDepths(trees, SortedSeq({trees[i].depth : i \in DOMAIN trees}))

RECURSIVE FlattenBones(_, _)
FlattenBones(trees, order) ==
    IF order = <<>> THEN <<>>
    ELSE trees[Head(order)].obj_list \o FlattenBones(trees, Tail(order))

RECURSIVE Dedup(_)
\* a list without its repetitions, each element at its first place
Dedup(seq) ==
    IF seq = <<>> THEN <<>>
    ELSE LET front == Dedup(SubSeq(seq, 1, Len(seq) - 1))
         IN  IF InSeq(front, seq[Len(seq)]) THEN front
             ELSE Append(front, seq[Len(seq)])

\* _get_unique_bones (and _get_unique_bones_from_trees): the bones of the
\* chains in dictionary order, one entry per name
get_unique_bones(trees) == Dedup(FlattenBones(trees, dict_order(trees)))

\* ------------------------------------------------------------ PhaserCore
\* The core as a record C: sf, ef, sub_steps, bake_weight (in WDen-ths),
\* bake_mode, existing_anim_cache (bone -> frame -> channels) and
\* base_pose_cache (bone -> channels).  The spring settings are those the
\* operator passes for the property defaults; force, wind, scene fields
\* and collision are off, as by default.
delay == 3
recursion_m == 500          \* sjps.recursion / 10.0, in PDen-ths
strength_m == 1000          \* 1.0 + (sjps.strength - 1.0) / 10.0
tension_m == 0
inertia_m == 0
threshold_m == 1            \* 0.001

SeqToSet(seq) == {seq[i] : i \in DOMAIN seq}

RECURSIVE cache_frames_short(_, _, _, _)
\* the loop stops one frame early: range(self.sf, self.ef)
cache_frames_short(C, H, bones, frame) ==
    IF frame >= C.ef THEN [core |-> C, host |-> H]
    ELSE LET H1 == view_layer_update(frame_set(H, frame))
             C1 == [C EXCEPT !.existing_anim_cache =
                       [b \in SeqToSet(bones) |->
                           [g \in (DOMAIN C.existing_anim_cache[b]) \cup {frame} |->
                               IF g = frame THEN H1.chan[b]
                               ELSE C.existing_anim_cache[b][g]]]]
         IN  cache_frames_short(C1, H1, bones, frame + 1)

RECURSIVE cache_frames(_, _, _, _)
\* the loop "for frame in range(self.sf, self.ef + 1)"
cache_frames(C, H, bones, frame) ==
    IF frame > C.ef THEN [core |-> C, host |-> H]
    ELSE LET H1 == view_layer_update(frame_set(H, frame))
             C1 == [C EXCEPT !.existing_anim_cache =
                       [b \in SeqToSet(bones) |->
                           [g \in (DOMAIN C.existing_anim_cache[b]) \cup {frame} |->
                               IF g = frame THEN H1.chan[b]
                               ELSE C.existing_anim_cache[b][g]]]]
         IN  cache_frames(C1, H1, bones, frame + 1)

cache_existing_animation(C, H, trees) ==
    LET C0    == [C EXCEPT !.existing_anim_cache = <<>>,
                           !.base_pose_cache = <<>>]
        bones == get_unique_bones(trees)
    IN  IF ~below_999(C.bake_weight) \/ bones = <<>>
        THEN [core |-> C0, host |-> H]
        ELSE LET current_frame == H.frame
                 C1 == [C0 EXCEPT !.existing_anim_cache =
                           [b \in SeqToSet(bones) |-> <<>>]]
                 H1 == view_layer_update(frame_set(H, C.sf))
                 C2 == [C1 EXCEPT !.base_pose_cache =
                           [b \in SeqToSet(bones) |-> H1.chan[b]]]
                 r  == cache_frames(C2, H1, bones, C.sf)
             IN  [core |-> r.core,
                  host |-> view_layer_update(frame_set(r.host, current_frame))]

set_animkey(C, H, b) ==
    LET f == H.frame
        has_existing ==
            /\ below_999(C.bake_weight)
            /\ b \in DOMAIN C.existing_anim_cache
            /\ f \in DOMAIN C.existing_anim_cache[b]
        existing_data == C.existing_anim_cache[b][f]
        spring_data   == H.chan[b]
        blended ==
            IF C.bake_mode = "ADDITIVE" /\ b \in DOMAIN C.base_pose_cache
            THEN blend_additive(existing_data, spring_data,
                                C.base_pose_cache[b], C.bake_weight)
            ELSE blend_override(existing_data, spring_data, C.bake_weight)
        H1 == IF has_existing THEN [H EXCEPT !.chan[b] = blended] ELSE H
    IN  keyframe_insert_all(H1, b, f)

RECURSIVE delete_frames(_, _, _, _)
delete_frames(H, b, f, last) ==
    IF f > last THEN H
    ELSE delete_frames(keyframe_delete_all(H, b, f), b, f + 1, last)

RECURSIVE delete_bones(_, _, _)
delete_bones(C, H, bones) ==
    IF bones = <<>> THEN H
    ELSE delete_bones(C, delete_frames(H, Head(bones), C.sf - 1, C.ef),
                      Tail(bones))

\* in Blender deleting a key that is not there changes nothing: the
\* RuntimeError the code catches is raised only when the armature has no
\* action at all, and then no channel has a key to lose (H.rejects is
\* FALSE); another host may reject the deletion (H.rejects is TRUE)
delete_anim_keys(C, H, trees, force_delete) ==
    IF ~force_delete /\ below_999(C.bake_weight) THEN H
    ELSE view_layer_update(
             delete_bones(C, H, FlattenBones(trees, sorted_order(trees))))

\* -------------------------------------------------------------- set_pre_data
\* the tip history starts at the origin
TailWorld_zeroed(H, b) == 0

\* amt_world @ pbn.tail
TailWorld(H, b) ==
    amt_world.pos + amt_world.dir * (H.mat[b].pos + H.mat[b].dir * BoneLength)

get_bone_length_matrix(H, b) ==
    MtMul(MtInv(MtMul(amt_world, H.mat[parent[b]])), MtMul(amt_world, H.mat[b]))

get_end_pos_from_bonelength(H, b) ==
    MtMul(MtMul(amt_world, H.mat[b]), Mt(BoneLength, 1))

RECURSIVE pre_data_bones(_, _, _)
\* the loop "for i, pbn in enumerate(obj_list)" of set_pre_data
pre_data_bones(H, data, i) ==
    IF i > Len(data.obj_list) THEN data
    ELSE LET pbn == data.obj_list[i]
             wmt == MtMul(amt_world, H.mat[pbn])
             d1  == [data EXCEPT
                        !.pre_mt = Append(@, wmt),
                        !.obj_length = Append(@, get_bone_length_matrix(H, pbn)),
                        !.old_vec = Append(@, 0),
                        !.old_tip = Append(@, TailWorld(H, pbn))]
             end_mt == get_end_pos_from_bonelength(H, pbn)
             d2  == IF i = Len(data.obj_list)
                    THEN [d1 EXCEPT
                            !.pre_mt = Append(@, end_mt),
                            !.obj_length = Append(@, MtMul(MtInv(wmt), end_mt))]
                    ELSE d1
         IN  pre_data_bones(H, d2, i + 1)

pre_data_chain_twice(H, data) ==
    pre_data_bones(H, pre_data_bones(H, data, 1), 1)

\* one chain's part of set_pre_data
pre_data_chain(H, data) == pre_data_bones(H, data, 1)

\* set_pre_data with scene fields and every collision mode off: the chains'
\* arrays (the order of the chains does not matter: they share nothing)
set_pre_data(C, H, trees) ==
    [i \in DOMAIN trees |-> pre_data_chain(H, trees[i])]

\* ------------------------------------------------------------ calculate_step
\* One bone of the loop of calculate_step.  st holds the host, the chain's
\* data and cur_p_mt; subs is sub_steps (dt_scale = 1 / subs).  On a line
\* the Y axes of pre_mt and tag_mt are parallel or opposite, so their cross
\* product is zero and the "Align Y" rotation is skipped; the roll only
\* turns the bone about its own Y axis.
\* a phase vector exactly at the threshold is zeroed too
deadzone_inclusive(phase, trshd) == IF Abs(phase) <= trshd THEN 0 ELSE phase

\* "if phase_vec.length < trshd: phase_vec = Vector((0, 0, 0))"
deadzone(phase, trshd) == IF Abs(phase) < trshd THEN 0 ELSE phase

\* the next bone's parent reference is left at the transform the bone had
\* before this step
next_parent_stale(new_mt, pre_mt) == pre_mt

\* "cur_p_mt = new_mt"
next_parent(new_mt, pre_mt) == new_mt

\* the tip is stored after pre_mt[i+1] has been recomputed
stored_tip_recomputed(c_pos, next_start_mt) == next_start_mt.pos

\* obj_data["old_tip"][i] = c_pos
stored_tip(c_pos, next_start_mt) == c_pos

\* the bone keeps the Y axis it has, wherever its previous tip is
tip_direction_rigid(c_pos, tag_pos, new_y_vec) == new_y_vec

\* y_vec of "Phase 3: Elasticity": the direction from the target position
\* to the previous tip, the bone's own Y axis when the two coincide
tip_direction(c_pos, tag_pos, new_y_vec) ==
    LET y_diff == c_pos - tag_pos
    IN  IF Abs(y_diff) > 0 THEN Sign(y_diff) * PDen ELSE new_y_vec

step_bone(C, st, i, subs, insert_key) ==
    LET d        == st.data
        obj      == d.obj_list[i]
        tag_mt   == MtMul(st.cur_p_mt, d.obj_length[i])
        pre_mt   == d.pre_mt[i]
        tag_pos  == tag_mt.pos
        new_y_vec == pre_mt.dir * PDen
        c_pos    == d.pre_mt[i + 1].pos
        y_vec    == tip_direction(c_pos, tag_pos, new_y_vec)
        rcs_vec  == Quot(d.old_vec[i] * recursion_m, PDen)
        base_phase == new_y_vec - Quot(y_vec * strength_m, PDen)
        safe_delay == delay          \* max(self.delay, 0.001), delay >= 1
        phase_a  == Quot(base_phase, safe_delay) + rcs_vec
        phase_b  == IF inertia_m > 0
                    THEN phase_a + Quot((c_pos - d.old_tip[i]) * inertia_m, Unit)
                    ELSE phase_a
        phase_c  == Quot(phase_b, subs)
        phase_d  == IF tension_m > 0
                    THEN Quot(phase_c * (PDen - tension_m), PDen)
                    ELSE phase_c
        phase_vec == deadzone(phase_d, C.threshold)
        y_dir    == Sign(y_vec + phase_vec)
        new_mt   == Mt(tag_pos, y_dir)
        H1 == set_bone_matrix(st.host, obj, MtMul(MtInv(amt_world), new_mt))
        H2 == view_layer_update(H1)
        H3 == IF insert_key THEN set_animkey(C, H2, obj) ELSE H2
        next_start_mt == MtMul(new_mt, d.obj_length[i + 1])
    IN  [host |-> H3,
         cur_p_mt |-> next_parent(new_mt, pre_mt),
         data |-> [d EXCEPT !.old_vec[i] = phase_vec,
                            !.pre_mt[i] = new_mt,
                            !.pre_mt[i + 1].pos = next_start_mt.pos,
                            !.old_tip[i] = stored_tip(c_pos, next_start_mt)]]

RECURSIVE step_bones(_, _, _, _, _)
step_bones(C, st, i, subs, insert_key) ==
    IF i > Len(st.data.obj_list) THEN st
    ELSE step_bones(C, step_bone(C, st, i, subs, insert_key), i + 1,
                    subs, insert_key)

\* calculate_step(obj_data, context, dt_scale, insert_key): the host and the
\* chain's data after it
calculate_step(C, H, data, subs, insert_key) ==
    LET first_bone == data.obj_list[1]
        cur_p_mt == IF parent[first_bone] # NoBone
                    THEN MtMul(amt_world, H.mat[parent[first_bone]])
                    ELSE amt_world
        r == step_bones(C, [host |-> H, data |-> data, cur_p_mt |-> cur_p_mt],
                        1, subs, insert_key)
    IN  [host |-> r.host, data |-> r.data]

\* ------------------------------------------------------ match_end_to_start
RECURSIVE match_bones(_, _, _, _)
match_bones(C, H, bones, start_mats) ==
    IF bones = <<>> THEN H
    ELSE LET bone == Head(bones)
             H1   == set_bone_matrix(H, bone, start_mats[bone])
         IN  match_bones(C, set_animkey(C, H1, bone), Tail(bones), start_mats)

match_end_to_start(C, H, trees) ==
    LET bones == get_unique_bones(trees)
    IN  IF trees = <<>> \/ bones = <<>> THEN H
        ELSE LET H1 == view_layer_update(frame_set(H, C.sf))
                 start_mats == [b \in SeqToSet(bones) |-> H1.mat[b]]
                 H2 == frame_set(H1, C.ef)
             IN  view_layer_update(match_bones(C, H2, bones, start_mats))

\* ------------------------------------------------------------ operators.py
RECURSIVE expand_stack(_, _)
\* the while loop of _expand_with_children (found is result; seen is its
\* names)
expand_stack(found, stack) ==
    IF stack = <<>> THEN found
    ELSE LET bone == stack[Len(stack)]
             kids == FilterSeq(Children(parent, bone),
                               Bones \ SeqToSet(found))
         IN  expand_stack(found \o kids,
                          SubSeq(stack, 1, Len(stack) - 1) \o kids)

expand_with_children(bones) == expand_stack(bones, bones)

get_effective_selection(sel, include_children) ==
    IF include_children /\ sel # <<>> THEN expand_with_children(sel) ELSE sel

\* _get_keyframes_for_bone: the frames of [frame_start, frame_end] at which
\* some F-curve of the bone has a key
get_keyframes_for_bone(H, b, frame_start, frame_end) ==
    {f \in KeyFrames : /\ frame_start <= f /\ f <= frame_end
                       /\ \E ch \in Channels : H.keys[b][ch][f] # NoKey}

RECURSIVE collect_frames(_, _, _, _)
collect_frames(H, bone_frames, frames, cache) ==
    IF frames = <<>> THEN [host |-> H, cache |-> cache]
    ELSE LET frame == Head(frames)
             H1 == view_layer_update(frame_set(H, frame))
             frame_cache == [b \in {x \in DOMAIN bone_frames :
                                       frame \in bone_frames[x]} |-> H1.mat[b]]
         IN  collect_frames(H1, bone_frames, Tail(frames),
                            [g \in (DOMAIN cache) \cup {frame} |->
                                IF g = frame THEN frame_cache ELSE cache[g]])

\* _collect_pose_match_data: frame -> bone -> matrix (cache), the order in
\* which the bones entered the dictionaries (order), and the host after it.
\* The armature has an action exactly when some F-curve has a key.
collect_pose_match_data(H, bones, frame_start, frame_end) ==
    LET bone_frames ==
            [b \in {x \in SeqToSet(bones) :
                      get_keyframes_for_bone(H, x, frame_start, frame_end) # {}}
                |-> get_keyframes_for_bone(H, b, frame_start, frame_end)]
        union_frames == SortedSeq(UNION {bone_frames[b] : b \in DOMAIN bone_frames})
        current_frame == H.frame
    IN  IF bones = <<>> \/ DOMAIN bone_frames = {}
        THEN [host |-> H, cache |-> <<>>, order |-> <<>>]
        ELSE LET r == collect_frames(H, bone_frames, union_frames, <<>>)
             IN  [host |-> view_layer_update(frame_set(r.host, current_frame)),
                  cache |-> r.cache,
                  order |-> FilterSeq(bones, DOMAIN bone_frames)]

RECURSIVE pose_match_bones(_, _, _, _)
pose_match_bones(H, bones, frame_cache, frame) ==
    IF bones = <<>> THEN H
    ELSE LET b  == Head(bones)
             H1 == keyframe_insert_all(set_bone_matrix(H, b, frame_cache[b]),
                                       b, frame)
         IN  pose_match_bones(H1, Tail(bones), frame_cache, frame)

RECURSIVE pose_match_frames(_, _, _, _)
pose_match_frames(H, pose_cache, order, frames) ==
    IF frames = <<>> THEN H
    ELSE LET frame == Head(frames)
             H1 == view_layer_update(frame_set(H, frame))
         IN  pose_match_frames(
                 pose_match_bones(H1, FilterSeq(order, DOMAIN pose_cache[frame]),
                                  pose_cache[frame], frame),
                 pose_cache, order, Tail(frames))

\* _apply_pose_match for a strength of 0.0 or of 1.0 (strength, in
\* WDen-ths, is 0 or WDen; the property's default is 1.0)
apply_pose_match(H, pose_cache, order, strength) ==
    IF DOMAIN pose_cache = {} \/ strength <= 0 THEN H
    ELSE LET current_frame == H.frame
             H1 == pose_match_frames(H, pose_cache, order,
                                     SortedSeq(DOMAIN pose_cache))
         IN  view_layer_update(frame_set(H1, current_frame))

\* ------------------------------------------------- the chain builder alone
Forests == {p \in [Bones -> 0..NB] : \A b \in Bones : p[b] < b}

RECURSIVE Orderings(_)
\* every list without repetition of the elements of a set
Orderings(S) ==
    IF S = {} THEN {<<>>}
    ELSE UNION {{<<x>> \o t : t \in Orderings(S \ {x})} : x \in S}

Selections == UNION {Orderings(S) : S \in SUBSET Bones}

\* no scene, no operator
NoRun ==
    /\ host = <<>> /\ core = <<>> /\ sjps = <<>> /\ op = "none"
    /\ result = "" /\ reports = <<>> /\ pose_match_cache = <<>>
    /\ fi = 0 /\ si = 0 /\ ci = 0 /\ host0 = <<>>

InitTree ==
    /\ parent \in Forests
    /\ selected \in Selections
    /\ obj_trees = <<>>
    /\ pc = "idle"
    /\ NoRun

TreeGetTreeList ==
    /\ pc = "idle"
    /\ obj_trees' = get_tree_list(parent, selected)
    /\ pc' = "built"
    /\ UNCHANGED <<parent, selected>>
    /\ UNCHANGED runVars

NextTree == TreeGetTreeList

SpecTree == InitTree /\ [][NextTree]_vars

\* ------------------------------------------------------ the operators' runs
\* The armature of the runs: bone 1 has no parent, 2 is its child, 3 and 4
\* are the first and the second child of 2, any further bone hangs on 1.
Armature ==
    [b \in Bones |-> IF b = 1 THEN NoBone ELSE IF b \in {3, 4} THEN 2 ELSE 1]

\* selected_pose_bones and use_chain
SelectionCases ==
    {[sel |-> <<>>, use_chain |-> FALSE],
     [sel |-> <<1>>, use_chain |-> FALSE],
     [sel |-> <<3>>, use_chain |-> FALSE],
     [sel |-> <<2>>, use_chain |-> TRUE],
     [sel |-> <<4, 2, 3>>, use_chain |-> FALSE]}

\* the scene before the run: the animation the armature already has, the
\* bones' rotation mode and the current frame
SceneCases ==
    {[anim |-> "none",   mode |-> "QUATERNION", frame0 |-> 0],
     [anim |-> "none",   mode |-> "XYZ",        frame0 |-> 1],
     [anim |-> "dense",  mode |-> "QUATERNION", frame0 |-> 1],
     [anim |-> "dense",  mode |-> "XYZ",        frame0 |-> 0],
     [anim |-> "sparse", mode |-> "QUATERNION", frame0 |-> 0],
     [anim |-> "sparse", mode |-> "XYZ",        frame0 |-> 1]}

AnimKey(anim, b, ch, f) ==
    IF \/ anim = "none"
       \/ anim = "sparse" /\ (f % 2 = 0 \/ b > 2)
    THEN NoKey
    ELSE CASE ch = "location" -> Unit * ((b + f) % 3)
           [] ch = "rotation_quaternion" -> Q * ((b + f) % 4)
           [] ch = "rotation_euler" -> Q * ((b + 2 * f) % 5)
           [] OTHER -> ScaleOne

RestChannels ==
    [location |-> 0, rotation_quaternion |-> QIdentity, rotation_euler |-> 0,
     scale |-> ScaleOne]

NoMark == [ph |-> "", f |-> 0, s |-> 0, c |-> 0]

\* the scene at frame frame0, evaluated, with an empty call log
InitialHost(anim, mode, frame0) ==
    LET raw == [frame |-> frame0,
                chan |-> [b \in Bones |-> RestChannels],
                mat |-> [b \in Bones |-> MtIdentity],
                keys |-> [b \in Bones |-> [ch \in Channels |->
                             [f \in KeyFrames |-> AnimKey(anim, b, ch, f)]]],
                rotation_mode |-> mode,
                rejects |-> FALSE,
                log |-> <<>>,
                mark |-> NoMark]
    IN  [frame_set(raw, frame0) EXCEPT !.log = <<>>]

\* a frame range beyond the cap of max_frames frames, whatever the start
max_frames == 10000
BigEnd == max_frames + MaxFrame + 1

\* PhaserCore.__init__
NewCore ==
    [sf |-> 0, ef |-> 10, sub_steps |-> 1, bake_weight |-> WDen,
     bake_mode |-> "OVERRIDE", existing_anim_cache |-> <<>>,
     base_pose_cache |-> <<>>, threshold |-> threshold_m]

Settings ==
    [sub_steps : 1..MaxSub,
     spring_bake_weight : {0, WDen},
     spring_bake_mode : {"OVERRIDE", "ADDITIVE"},
     use_loop : BOOLEAN,
     use_pose_match : BOOLEAN,
     pose_match_strength : {WDen},
     use_chain : BOOLEAN,
     frame_start : 1..2,
     frame_end : (1..MaxFrame) \cup {BigEnd}]

DefaultSettings(x) ==
    /\ x.sub_steps = 1 /\ x.spring_bake_weight = WDen
    /\ x.spring_bake_mode = "OVERRIDE" /\ ~x.use_loop /\ ~x.use_pose_match

Init ==
    /\ parent = Armature
    /\ op \in {"calc", "del"}
    /\ \E sc \in SelectionCases :
          /\ selected = sc.sel
          /\ sjps \in {x \in Settings :
                         /\ x.use_chain = sc.use_chain
                         /\ x.spring_bake_weight = WDen
                               => x.spring_bake_mode = "OVERRIDE"
                         /\ op = "del" => DefaultSettings(x)}
    /\ \E sc \in SceneCases : host = InitialHost(sc.anim, sc.mode, sc.frame0)
    /\ host0 = host
    /\ core = NewCore
    /\ obj_trees = <<>>
    /\ pose_match_cache = [cache |-> <<>>, order |-> <<>>]
    /\ pc = "start" /\ result = "" /\ reports = <<>>
    /\ fi = 0 /\ si = 0 /\ ci = 0

Marked(H, ph) == [H EXCEPT !.mark = [ph |-> ph, f |-> fi, s |-> si, c |-> ci]]

start_after_end(C) == C.sf > C.ef

\* the operators' first range check
start_not_before_end(C) == C.sf >= C.ef

\* the operators' second range check
frame_range_too_large(C) == C.ef - C.sf > max_frames

Cancel(msg) ==
    /\ reports' = Append(reports, [level |-> "ERROR", msg |-> msg])
    /\ result' = "CANCELLED"
    /\ pc' = "done"

\* both operators, from core = PhaserCore() to the two range checks
CheckRange ==
    /\ pc = "start"
    /\ LET C == [core EXCEPT
                    !.sf = sjps.frame_start,
                    !.ef = sjps.frame_end,
                    !.sub_steps = IF op = "calc" THEN Max(1, sjps.sub_steps) ELSE @,
                    !.bake_weight = IF op = "calc" THEN sjps.spring_bake_weight ELSE @,
                    !.bake_mode = IF op = "calc" THEN sjps.spring_bake_mode ELSE @]
       IN  /\ core' = C
           /\ IF start_not_before_end(C)
              THEN Cancel("Start Frame must be smaller than End Frame.")
              ELSE IF frame_range_too_large(C)
              THEN Cancel("Frame range too large")
              ELSE pc' = "ranged" /\ UNCHANGED <<result, reports>>
    /\ UNCHANGED <<parent, selected, obj_trees, host, sjps, op,
                   pose_match_cache, fi, si, ci, host0>>

\* both operators: context.scene.frame_set(core.sf)
FrameSetStart ==
    /\ pc = "ranged"
    /\ host' = frame_set(Marked(host, "start"), core.sf)
    /\ pc' = "framed"
    /\ UNCHANGED <<parent, selected, obj_trees, core, sjps, op, result,
                   reports, pose_match_cache, fi, si, ci, host0>>

\* both operators: the effective selection and get_tree_list
Select ==
    /\ pc = "framed"
    /\ LET effective == get_effective_selection(selected, sjps.use_chain)
           trees == get_tree_list(parent, effective)
       IN  IF effective = <<>>
           THEN Cancel("No bones selected.") /\ UNCHANGED obj_trees
           ELSE IF trees = <<>>
           THEN Cancel("No valid bone chains found.") /\ UNCHANGED obj_trees
           ELSE /\ obj_trees' = trees
                /\ pc' = "selected"
                /\ UNCHANGED <<result, reports>>
    /\ UNCHANGED <<parent, selected, host, core, sjps, op,
                   pose_match_cache, fi, si, ci, host0>>

RECURSIVE key_bones(_, _, _)
\* the operators' loop "for pbn in obj_trees[k][t]['obj_list']:
\* core.set_animkey(pbn, context)"
key_bones(C, H, bones) ==
    IF bones = <<>> THEN H
    ELSE key_bones(C, set_animkey(C, H, Head(bones)), Tail(bones))

\* Calculate: _collect_pose_match_data when use_pose_match is set
CalcCollectPoseMatch ==
    /\ pc = "selected" /\ op = "calc"
    /\ IF sjps.use_pose_match
       THEN LET r == collect_pose_match_data(Marked(host, "collect"),
                                             get_unique_bones(obj_trees),
                                             core.sf, core.ef)
            IN  /\ host' = r.host
                /\ pose_match_cache' = [cache |-> r.cache, order |-> r.order]
       ELSE UNCHANGED <<host, pose_match_cache>>
    /\ pc' = "collected"
    /\ UNCHANGED <<parent, selected, obj_trees, core, sjps, op, result,
                   reports, fi, si, ci, host0>>

\* Calculate: core.cache_existing_animation(obj_trees, context)
CalcCacheAnimation ==
    /\ pc = "collected"
    /\ LET r == cache_existing_animation(core, Marked(host, "cache"), obj_trees)
       IN  core' = r.core /\ host' = r.host
    /\ pc' = "cached"
    /\ UNCHANGED <<parent, selected, obj_trees, sjps, op, result, reports,
                   pose_match_cache, fi, si, ci, host0>>

\* Calculate: core.delete_anim_keys(obj_trees, context)
CalcDeleteKeys ==
    /\ pc = "cached"
    /\ host' = delete_anim_keys(core, Marked(host, "delete"), obj_trees, FALSE)
    /\ pc' = "deleted"
    /\ UNCHANGED <<parent, selected, obj_trees, core, sjps, op, result,
                   reports, pose_match_cache, fi, si, ci, host0>>

\* Calculate: the keys of the start frame
CalcInitialKeys ==
    /\ pc = "deleted"
    /\ host' = key_bones(core, Marked(host, "initial"),
                         FlattenBones(obj_trees, dict_order(obj_trees)))
    /\ pc' = "keyed"
    /\ UNCHANGED <<parent, selected, obj_trees, core, sjps, op, result,
                   reports, pose_match_cache, fi, si, ci, host0>>

first_sim_frame_start(C) == C.sf

\* execute_simulation: the first frame of range(self.sf + 1, self.ef + 1)
first_sim_frame(C) == C.sf + 1

insert_key_every_sub_step(s, sub_steps) == TRUE

\* the comparison off by one: no sub-step of range(sub_steps) keys
insert_key_past_last(s, sub_steps) == s = sub_steps

\* execute_simulation: insert_key = (s == sub_steps - 1)
insert_key_of(s, sub_steps) == s = sub_steps - 1

\* Calculate: core.set_pre_data, then execute_simulation up to its loop
CalcSetPreData ==
    /\ pc = "keyed"
    /\ obj_trees' = set_pre_data(core, host, obj_trees)
    /\ fi' = first_sim_frame(core)
    /\ pc' = "sim_frame"
    /\ UNCHANGED <<parent, selected, host, core, sjps, op, result, reports,
                   pose_match_cache, si, ci, host0>>

\* execute_simulation: context.scene.frame_set(f) of the frame loop
SimFrameSet ==
    /\ pc = "sim_frame" /\ fi <= core.ef
    /\ host' = frame_set(Marked(host, "sim"), fi)
    /\ si' = 0 /\ ci' = 1
    /\ pc' = "sim_step"
    /\ UNCHANGED <<parent, selected, obj_trees, core, sjps, op, result,
                   reports, pose_match_cache, fi, host0>>

\* execute_simulation: one calculate_step, of chain ci (in sorted order) in
\* sub-step si of frame fi, and the loops' advance
SimStep ==
    /\ pc = "sim_step"
    /\ LET sub_steps == Max(1, core.sub_steps)
           order == sorted_order(obj_trees)
           t == order[ci]
           insert_key == insert_key_of(si, sub_steps)
           r == calculate_step(core, Marked(host, "sim"), obj_trees[t],
                               sub_steps, insert_key)
       IN  /\ host' = r.host
           /\ obj_trees' = [obj_trees EXCEPT ![t] = r.data]
           /\ IF ci < Len(order)
              THEN ci' = ci + 1 /\ UNCHANGED <<si, fi, pc>>
              ELSE IF si < sub_steps - 1
              THEN ci' = 1 /\ si' = si + 1 /\ UNCHANGED <<fi, pc>>
              ELSE ci' = 1 /\ si' = 0 /\ fi' = fi + 1 /\ pc' = "sim_frame"
    /\ UNCHANGED <<parent, selected, core, sjps, op, result, reports,
                   pose_match_cache, host0>>

\* execute_simulation: the frame loop is over
SimReturn ==
    /\ pc = "sim_frame" /\ fi > core.ef
    /\ pc' = "simulated"
    /\ UNCHANGED <<parent, selected, obj_trees, host, core, sjps, op, result,
                   reports, pose_match_cache, fi, si, ci, host0>>

\* Calculate: _apply_pose_match when use_pose_match is set and the cache is
\* not empty
CalcApplyPoseMatch ==
    /\ pc = "simulated"
    /\ IF sjps.use_pose_match /\ DOMAIN pose_match_cache.cache # {}
       THEN host' = apply_pose_match(Marked(host, "pose_match"),
                                     pose_match_cache.cache,
                                     pose_match_cache.order,
                                     sjps.pose_match_strength)
       ELSE UNCHANGED host
    /\ pc' = "pose_matched"
    /\ UNCHANGED <<parent, selected, obj_trees, core, sjps, op, result,
                   reports, pose_match_cache, fi, si, ci, host0>>

\* Calculate: core.match_end_to_start when use_loop is set
CalcMatchEnd ==
    /\ pc = "pose_matched"
    /\ IF sjps.use_loop
       THEN host' = match_end_to_start(core, Marked(host, "loop"), obj_trees)
       ELSE UNCHANGED host
    /\ pc' = "finishing"
    /\ UNCHANGED <<parent, selected, obj_trees, core, sjps, op, result,
                   reports, pose_match_cache, fi, si, ci, host0>>

\* Delete: core.delete_anim_keys(obj_trees, context, force_delete=True)
DelDeleteKeys ==
    /\ pc = "selected" /\ op = "del"
    /\ host' = delete_anim_keys(core, Marked(host, "delete"), obj_trees, TRUE)
    /\ pc' = "del_deleted"
    /\ UNCHANGED <<parent, selected, obj_trees, core, sjps, op, result,
                   reports, pose_match_cache, fi, si, ci, host0>>

\* Delete: the keys of the start frame
DelInitialKeys ==
    /\ pc = "del_deleted"
    /\ host' = key_bones(core, Marked(host, "initial"),
                         FlattenBones(obj_trees, dict_order(obj_trees)))
    /\ pc' = "finishing"
    /\ UNCHANGED <<parent, selected, obj_trees, core, sjps, op, result,
                   reports, pose_match_cache, fi, si, ci, host0>>

\* both operators: return {'FINISHED'}
Finish ==
    /\ pc = "finishing"
    /\ result' = "FINISHED"
    /\ pc' = "done"
    /\ UNCHANGED <<parent, selected, obj_trees, host, core, sjps, op,
                   reports, pose_match_cache, fi, si, ci, host0>>

Next ==
    \/ CheckRange \/ FrameSetStart \/ Select
    \/ CalcCollectPoseMatch \/ CalcCacheAnimation \/ CalcDeleteKeys
    \/ CalcInitialKeys \/ CalcSetPreData
    \/ SimFrameSet \/ SimStep \/ SimReturn
    \/ CalcApplyPoseMatch \/ CalcMatchEnd
    \/ DelDeleteKeys \/ DelInitialKeys \/ Finish

Spec == Init /\ [][Next]_vars

\* every bone that some chain holds
ChainBones ==
    UNION {{obj_trees[i].obj_list[j] : j \in DOMAIN obj_trees[i].obj_list} :
              i \in DOMAIN obj_trees}

\* the first bones of the chains
ChainStarts == {obj_trees[i].obj_list[1] : i \in DOMAIN obj_trees}

\* ------------------------------------------------------------------ C1
\* C1: get_tree_list starts a chain at a selected bone b exactly when b has
\* a parent and either the parent is not selected or b is not the first
\* declared child of its parent; only selected bones start chains, and a
\* selected bone without parent neither starts a chain nor is inside one.
C1_RootsExactlyTheRule ==
    pc = "built" =>
        /\ \A b \in Bones :
              InSeq(selected, b) =>
                  ((b \in ChainStarts) <=>
                     /\ parent[b] # NoBone
                     /\ \/ ~InSeq(selected, parent[b])
                        \/ Children(parent, parent[b])[1] # b)
        /\ \A b \in ChainStarts : InSeq(selected, b)
        /\ \A b \in Bones :
              (InSeq(selected, b) /\ parent[b] = NoBone) => b \notin ChainBones

\* a selected parentless bone, a root whose parent is unselected and a root
\* that is not the first child of its selected parent, in one result
C1_Witness ==
    /\ pc = "built"
    /\ \E b \in Bones : InSeq(selected, b) /\ parent[b] = NoBone
    /\ \E b \in ChainStarts : ~InSeq(selected, parent[b])
    /\ \E b \in ChainStarts :
          InSeq(selected, parent[b]) /\ Children(parent, parent[b])[1] # b

\* ------------------------------------------------------------------ C2
\* C2: in every chain each element after the first is the first declared
\* child of the element before it and is selected (no branching); the chain
\* ends at the first bone without children or whose first child is not
\* selected, so a root without children or with an unselected first child
\* is a chain of exactly one bone.
C2_ChainsFollowFirstSelectedChild ==
    pc = "built" =>
        \A i \in DOMAIN obj_trees :
            LET tree == obj_trees[i].obj_list
                last == tree[Len(tree)]
            IN  /\ Len(tree) >= 1
                /\ \A j \in 2..Len(tree) :
                      /\ Len(Children(parent, tree[j-1])) > 0
                      /\ tree[j] = Children(parent, tree[j-1])[1]
                      /\ InSeq(selected, tree[j])
                /\ \/ Len(Children(parent, last)) = 0
                   \/ ~InSeq(selected, Children(parent, last)[1])

\* a chain of two bones or more that stops at a bone whose first child is
\* not selected
C2_Witness ==
    /\ pc = "built"
    /\ \E i \in DOMAIN obj_trees :
          LET tree == obj_trees[i].obj_list
              kids == Children(parent, tree[Len(tree)])
          IN  /\ Len(tree) >= 2
              /\ Len(kids) >= 1
              /\ ~InSeq(selected, kids[1])

\* ------------------------------------------------- PhaserCore called directly
\* A caller of the core's methods: get_tree_list once, then set_pre_data
\* (ci counts the calls) and calculate_step on any chain (si counts the
\* calls since the last set_pre_data, fi all of them) in any order.
\* The spring settings are those of the operators' runs.
MaxPreData == 2
MaxSteps == 2

InitCore ==
    /\ parent = Armature
    /\ \E sc \in SelectionCases :
          selected = get_effective_selection(sc.sel, sc.use_chain)
    /\ \E sc \in SceneCases : host = InitialHost(sc.anim, sc.mode, sc.frame0)
    /\ host0 = host
    /\ \E n \in 1..MaxSub : core = [NewCore EXCEPT !.sub_steps = n]
    /\ sjps = <<>> /\ op = "core"
    /\ obj_trees = <<>>
    /\ pose_match_cache = <<>>
    /\ pc = "core_new" /\ result = "" /\ reports = <<>>
    /\ fi = 0 /\ si = 0 /\ ci = 0

CoreGetTreeList ==
    /\ pc = "core_new"
    /\ obj_trees' = get_tree_list(parent, selected)
    /\ pc' = "core_built"
    /\ UNCHANGED <<parent, selected, host, core, sjps, op, result, reports,
                   pose_match_cache, fi, si, ci, host0>>

CoreSetPreData ==
    /\ pc \in {"core_built", "core_ready"}
    /\ ci < MaxPreData
    /\ obj_trees' = set_pre_data(core, host, obj_trees)
    /\ ci' = ci + 1 /\ si' = 0
    /\ pc' = "core_ready"
    /\ UNCHANGED <<parent, selected, host, core, sjps, op, result, reports,
                   pose_match_cache, fi, host0>>

CoreCalculateStep ==
    /\ pc = "core_ready"
    /\ fi < MaxSteps
    /\ \E t \in DOMAIN obj_trees, insert_key \in BOOLEAN :
          LET r == calculate_step(core, Marked(host, "step"), obj_trees[t],
                                  Max(1, core.sub_steps), insert_key)
          IN  /\ host' = r.host
              /\ obj_trees' = [obj_trees EXCEPT ![t] = r.data]
    /\ fi' = fi + 1 /\ si' = si + 1
    /\ UNCHANGED <<parent, selected, core, sjps, op, result, reports,
                   pose_match_cache, ci, pc, host0>>

NextCore == CoreGetTreeList \/ CoreSetPreData \/ CoreCalculateStep

SpecCore == InitCore /\ [][NextCore]_vars

\* ------------------------------------------------------------ the call log
\* the host calls execute_simulation made so far
SimLog == SelectSeq(host.log, LAMBDA e : e.mark.ph = "sim")

\* the frames execute_simulation set, in the order of the calls
SimFrames ==
    LET calls == SelectSeq(SimLog, LAMBDA e : e.ev = "frame_set")
    IN  [i \in DOMAIN calls |-> calls[i].f]

\* how many entries of a list pass a test
Count(seq, Test(_)) == Len(SelectSeq(seq, Test))

sub_steps_run == Max(1, sjps.sub_steps)

RangeValid ==
    /\ sjps.frame_start < sjps.frame_end
    /\ sjps.frame_end - sjps.frame_start <= max_frames

\* ------------------------------------------------------------------ C3
\* C3: after one set_pre_data on freshly built chains, and after any number
\* of calculate_step calls that follow it, every chain of N bones has N+1
\* entries in pre_mt and in obj_length and N entries in old_vec and in
\* old_tip.
C3_ArrayLengths ==
    (pc = "core_ready" /\ ci = 1) =>
        \A i \in DOMAIN obj_trees :
            LET d == obj_trees[i]
                N == Len(d.obj_list)
            IN  /\ Len(d.pre_mt) = N + 1
                /\ Len(d.obj_length) = N + 1
                /\ Len(d.old_vec) = N
                /\ Len(d.old_tip) = N

\* set_pre_data was called once and calculate_step twice or more since, on
\* chains of which one has two bones or more
C3_Witness ==
    /\ pc = "core_ready" /\ ci = 1 /\ si >= 2
    /\ \E i \in DOMAIN obj_trees : Len(obj_trees[i].obj_list) >= 2

\* ------------------------------------------------------------------ C4
\* C4: after a second set_pre_data that follows the first with no
\* calculate_step in between, the chains' pre_mt, obj_length, old_vec and
\* old_tip are what one set_pre_data makes of the freshly built chains.
C4_SetPreDataIdempotent ==
    (pc = "core_ready" /\ ci = 2 /\ fi = 0) =>
        obj_trees = set_pre_data(core, host, get_tree_list(parent, selected))

\* ------------------------------------------------------------------ C5
\* C5: execute_simulation sets the frames start+1, start+2, .. one after the
\* other, each once and up to end by the time it returns, never the start
\* frame; and when it returns every bone of every chain has been moved by
\* calculate_step max(1, sub_steps) times while the scene was at each of
\* these frames (calculate_step writes each bone of its chain once).
C5_EveryFrameEveryChainStepped ==
    op = "calc" =>
        /\ \A i \in DOMAIN SimFrames : SimFrames[i] = core.sf + i
        /\ Len(SimFrames) <= Max(0, core.ef - core.sf)
        /\ pc \in {"simulated", "pose_matched", "finishing"} \/ result = "FINISHED" =>
              /\ Len(SimFrames) = core.ef - core.sf
              /\ \A b \in ChainBones : \A f \in (core.sf + 1)..core.ef :
                    Count(SimLog, LAMBDA e : e.ev = "write" /\ e.b = b /\ e.f = f)
                        = sub_steps_run
              /\ \A i \in DOMAIN SimLog : SimLog[i].f # core.sf

\* the simulation has returned after two frames or more of two sub-steps or
\* more on two chains or more
C5_Witness ==
    /\ pc = "simulated"
    /\ core.ef - core.sf >= 2
    /\ sub_steps_run >= 2
    /\ Len(obj_trees) >= 2

\* ------------------------------------------------------------------ C6
\* C6: while execute_simulation runs, set_animkey is called for a bone only
\* in the last sub-step of a frame; when it has returned, every bone of
\* every chain has exactly one such call at each frame of start+1..end, and
\* in each earlier sub-step the bone was written without a key.
C6_KeyOnlyInLastSubStep ==
    op = "calc" =>
        /\ \A i \in DOMAIN SimLog :
              SimLog[i].ev = "key" => SimLog[i].mark.s = sub_steps_run - 1
        /\ pc \in {"simulated", "pose_matched", "finishing"} \/ result = "FINISHED" =>
              \A b \in ChainBones : \A f \in (core.sf + 1)..core.ef :
                 /\ Count(SimLog, LAMBDA e : e.ev = "key" /\ e.b = b /\ e.f = f) = 1
                 /\ \A s \in 0..(sub_steps_run - 2) :
                       /\ Count(SimLog, LAMBDA e : /\ e.ev = "write" /\ e.b = b
                                                    /\ e.f = f /\ e.mark.s = s) = 1
                       /\ Count(SimLog, LAMBDA e : /\ e.ev = "key" /\ e.b = b
                                                    /\ e.f = f /\ e.mark.s = s) = 0

\* the simulation has returned after two sub-steps or more per frame on a
\* chain of two bones or more
C6_Witness ==
    /\ pc = "simulated"
    /\ sub_steps_run >= 2
    /\ \E i \in DOMAIN obj_trees : Len(obj_trees[i].obj_list) >= 2
    /\ \E i \in DOMAIN SimLog : SimLog[i].ev = "key"

\* ------------------------------------------------------------------ C7
\* C7: with start >= end, or end - start above 10000, Calculate and Delete
\* Keyframe report one error and return CANCELLED, and the host has not
\* been called: frame, keys, channels and matrices are as before the run.
C7_InvalidRangeRejectedUntouched ==
    (pc # "start" /\ ~RangeValid) =>
        /\ pc = "done" /\ result = "CANCELLED"
        /\ Len(reports) = 1 /\ reports[1].level = "ERROR"
        /\ host = host0
        /\ obj_trees = <<>>

\* Delete Keyframe has returned on a range above 10000 frames, on a scene
\* that is not at the start frame, has keys and has a chain selected
C7_Witness ==
    /\ pc = "done" /\ op = "del"
    /\ sjps.frame_end - sjps.frame_start > max_frames
    /\ host0.frame # sjps.frame_start
    /\ get_tree_list(parent, selected) # <<>>
    /\ \E b \in Bones : host0.keys[b]["location"][sjps.frame_start] # NoKey

\* ------------------------------------------------------------------ C8
\* C8: when the range is valid and Calculate returns CANCELLED (the
\* effective selection is empty, or it yields no chain), the scene's
\* current frame, every key and every bone's channels and evaluated matrix
\* are as they were before the call.
C8_CancelledSelectionLeavesSceneAlone ==
    (op = "calc" /\ RangeValid /\ pc = "done" /\ result = "CANCELLED") =>
        /\ host.frame = host0.frame
        /\ host.keys = host0.keys
        /\ host.chan = host0.chan
        /\ host.mat = host0.mat

\* ------------------------------------------------------------------ C9
\* the armature space matrix of bone b once the scene is set to frame f
MatrixAtFrame(H, b, f) == frame_set(H, f).mat[b]

\* C9: after a finished Calculate run with use_loop, every chain bone's key
\* at the end frame gives it the transform it has at the start frame: the
\* keyed channels are those keyed at the start frame and the evaluated
\* matrices of the two frames are equal.
C9_EndFrameEqualsStartFrame ==
    (op = "calc" /\ result = "FINISHED" /\ sjps.use_loop) =>
        \A b \in ChainBones :
            /\ \A ch \in Channels : host.keys[b][ch][core.ef] # NoKey
            /\ MatrixAtFrame(host, b, core.ef) = MatrixAtFrame(host, b, core.sf)

\* ------------------------------------------------------------------ C10
\* C10: when execute_simulation has returned, for every chain bone and
\* every frame of start..end the key of every channel is the cached
\* pre-existing value if the bake weight is 0 (in both modes), and is the
\* value the spring step gave the channel if the weight is 1 (the channels
\* still hold the step's values of the frame the scene is at).
C10_KeysFollowBakeWeight ==
    (op = "calc" /\ pc = "simulated") =>
        \A b \in ChainBones : \A f \in core.sf..core.ef : \A ch \in Channels :
            /\ core.bake_weight = 0 =>
                  host.keys[b][ch][f] = core.existing_anim_cache[b][f][ch]
            /\ core.bake_weight = WDen =>
                  /\ host.keys[b][ch][f] # NoKey
                  /\ f = host.frame => host.keys[b][ch][f] = host.chan[b][ch]

\* ------------------------------------------------------------------ C11
\* set_animkey alone, on one bone at one frame: the cached pre-existing
\* pose, the base pose and the spring pose are drawn from BlendPoses, and
\* the bone is keyed once for every bake weight 0/WDen .. WDen/WDen in
\* growing order (ci is the next weight, result the poses keyed so far).
BlendBone == 3
BlendPoses ==
    {[location |-> 0, rotation_quaternion |-> 0,
      rotation_euler |-> 0, scale |-> ScaleOne],
     [location |-> Unit, rotation_quaternion |-> Q,
      rotation_euler |-> Q, scale |-> 2 * ScaleOne],
     [location |-> 2 * Unit, rotation_quaternion |-> 3 * Q,
      rotation_euler |-> 3 * Q, scale |-> ScaleOne],
     [location |-> 3 * Unit, rotation_quaternion |-> 2 * Q,
      rotation_euler |-> 0 - Q, scale |-> 3 * ScaleOne]}

InitBlend ==
    /\ parent = Armature
    /\ selected = <<BlendBone>>
    /\ obj_trees = <<>>
    /\ \E spring \in BlendPoses, mode \in {"QUATERNION", "XYZ"} :
          host = [InitialHost("none", mode, 1)
                     EXCEPT !.chan[BlendBone] = spring]
    /\ host0 = host
    /\ \E existing \in BlendPoses, base \in BlendPoses,
          bake_mode \in {"OVERRIDE", "ADDITIVE"}, has_base \in BOOLEAN :
          core = [NewCore EXCEPT
                     !.bake_weight = 0,
                     !.bake_mode = bake_mode,
                     !.existing_anim_cache = (BlendBone :> (1 :> existing)),
                     !.base_pose_cache =
                         IF has_base THEN (BlendBone :> base) ELSE <<>>]
    /\ sjps = <<>> /\ op = "blend"
    /\ pose_match_cache = <<>>
    /\ pc = "blend" /\ result = <<>> /\ reports = <<>>
    /\ fi = 0 /\ si = 0 /\ ci = 0

\* the bone holds the spring pose and is keyed with bake weight ci/WDen
BlendSetAnimkey ==
    /\ pc = "blend"
    /\ ci <= WDen
    /\ LET C == [core EXCEPT !.bake_weight = ci]
           H == set_animkey(C, [host EXCEPT !.chan = host0.chan], BlendBone)
       IN  /\ core' = C
           /\ host' = H
           /\ result' = Append(result, H.chan[BlendBone])
    /\ ci' = ci + 1
    /\ UNCHANGED <<parent, selected, obj_trees, pc, sjps, op, reports,
                   pose_match_cache, fi, si, host0>>

NextBlend == BlendSetAnimkey

SpecBlend == InitBlend /\ [][NextBlend]_vars

\* x lies between a and b
Between(a, x, b) == (a <= x /\ x <= b) \/ (b <= x /\ x <= a)
\* x lies strictly between a and b, or a = x = b
StrictlyBetween(a, x, b) ==
    (a < x /\ x < b) \/ (b < x /\ x < a) \/ (a = x /\ x = b)

BlendExisting == core.existing_anim_cache[BlendBone][1]
BlendSpring == host0.chan[BlendBone]
\* the pose keyed with weight w/WDen
BlendKeyed(w) == result[w + 1]

\* channel ch of the poses keyed so far: every one with a weight strictly
\* between 0 and 1 lies strictly between the cached and the spring value,
\* and each lies between its predecessor and the spring value
InterpolatesChannel(ch) ==
    /\ \A w \in 1..(WDen - 1) :
          w < Len(result) =>
             StrictlyBetween(BlendExisting[ch], BlendKeyed(w)[ch], BlendSpring[ch])
    /\ \A w \in 1..WDen :
          w < Len(result) =>
             Between(BlendKeyed(w - 1)[ch], BlendKeyed(w)[ch], BlendSpring[ch])

VNorm == 5
\* 0.001 and 0.0001 are below the grid: one step
MinRadius == 1
FlatExpand == 1
V3(x, y, z) == [x |-> x, y |-> y, z |-> z]
VZero == V3(0, 0, 0)
VAdd(a, b) == V3(a.x + b.x, a.y + b.y, a.z + b.z)
VSub(a, b) == V3(a.x - b.x, a.y - b.y, a.z - b.z)
VDot(a, b) == a.x * b.x + a.y * b.y + a.z * b.z
VCross(a, b) ==
    V3(a.y * b.z - a.z * b.y, a.z * b.x - a.x * b.z, a.x * b.y - a.y * b.x)
\* v * n / d
VScale(v, n, d) == V3(Quot(v.x * n, d), Quot(v.y * n, d), Quot(v.z * n, d))
VLen2(v) == VDot(v, v)
\* the square root, rounded down
ISqrt(n) == CHOOSE k \in 0..n : k * k <= n /\ n < (k + 1) * (k + 1)
VLength(v) == ISqrt(VLen2(v))
\* Vector.normalized(), VNorm long; the zero vector stays zero
VNormalized(v) ==
    IF VLen2(v) = 0 THEN VZero ELSE VScale(v, VNorm, VLength(v))
VAxisX == V3(VNorm, 0, 0)
VAxisY == V3(0, VNorm, 0)

\* a pose bone as the capsule resolver reads it: head and tail in world
\* space and the larger of its two radii
_capsule_from_bone(C, pbn) ==
    LET axis == VSub(pbn.tail, pbn.head)
        long == VLen2(axis) > 0 /\ C.collision_length_offset > 0
        half == VScale(VNormalized(axis), C.collision_length_offset, 2 * VNorm)
    IN  [head |-> IF long THEN VSub(pbn.head, half) ELSE pbn.head,
         tail |-> IF long THEN VAdd(pbn.tail, half) ELSE pbn.tail,
         radius |-> Max(pbn.radius, MinRadius) + C.collision_margin]

_closest_point_on_segment(p, a, b) ==
    LET ab == VSub(b, a)
        ab_len_sq == VLen2(ab)
        d == VDot(VSub(p, a), ab)
    IN  IF ab_len_sq = 0 THEN a
        ELSE IF d <= 0 THEN a
        ELSE IF d >= ab_len_sq THEN b
        ELSE VAdd(a, VScale(ab, d, ab_len_sq))

\* the point pushed out of the capsule around the segment head..tail, if
\* it is inside (lines 448-460 and 566-577)
push_from_segment(point, head, tail, axis, radius) ==
    LET closest == _closest_point_on_segment(point, head, tail)
        delta0  == VSub(point, closest)
        near    == VLen2(delta0) = 0
        crossX  == VCross(axis, VAxisX)
        delta   == IF ~near THEN delta0
                   ELSE IF VLen2(crossX) # 0 THEN crossX
                   ELSE VCross(axis, VAxisY)
    IN  IF VLen2(delta0) < radius * radius /\ VLen2(delta) > 0
        THEN VAdd(closest, VScale(delta, radius, VLength(delta)))
        ELSE point

RECURSIVE _apply_capsule_collision(_, _, _, _)
\* bones is what is left of _collision_bones; exclude_names is {} for None
_apply_capsule_collision(C, point, bones, exclude_names) ==
    IF bones = <<>> THEN point
    ELSE IF Head(bones).name \in exclude_names
    THEN _apply_capsule_collision(C, point, Tail(bones), exclude_names)
    ELSE LET cap == _capsule_from_bone(C, Head(bones))
             corrected == push_from_segment(
                              point, cap.head, cap.tail,
                              VNormalized(VSub(cap.tail, cap.head)), cap.radius)
         IN  _apply_capsule_collision(C, corrected, Tail(bones), exclude_names)

NoPlane == <<>>
\* obj is NoPlane or an object's origin and the image of its Z axis
_cache_collision_plane(obj) ==
    IF obj = NoPlane THEN NoPlane
    ELSE IF VLen2(obj.zaxis) = 0 THEN NoPlane
    ELSE [normal |-> VNormalized(obj.zaxis), point |-> obj.origin]

_apply_plane_collision(point, plane) ==
    IF plane = NoPlane THEN point
    ELSE LET dist == VDot(VSub(point, plane.point), plane.normal)
         IN  IF dist < 0
             THEN VSub(point, VScale(plane.normal, dist, VNorm * VNorm))
             ELSE point

Max3(v) == Max(v.x, Max(v.y, v.z))
Min(a, b) == IF a <= b THEN a ELSE b

\* obj: origin, dimensions (whole, even), margin
_collide_sphere(point, obj, margin) ==
    LET center == obj.origin
        radius == Max3(obj.dimensions) \div 2 + margin
        delta0 == VSub(point, center)
        delta  == IF VLen2(delta0) = 0 THEN VAxisX ELSE delta0
    IN  IF radius <= 0 THEN point
        ELSE IF VLen2(delta0) < radius * radius
        THEN VAdd(center, VScale(delta, radius, VLength(delta)))
        ELSE point

\* the bounds of the box along one axis, inflated
box_bounds(lo, hi, margin) ==
    IF lo = hi THEN [min |-> lo - Max(FlatExpand, margin),
                     max |-> hi + Max(FlatExpand, margin)]
    ELSE [min |-> lo - margin, max |-> hi + margin]

\* obj: origin (matrix_world is a translation), bound_box as its two
\* opposite corners lo and hi, in local space
_collide_box(point, obj, margin) ==
    LET local == VSub(point, obj.origin)
        bx == box_bounds(obj.lo.x, obj.hi.x, margin)
        by == box_bounds(obj.lo.y, obj.hi.y, margin)
        bz == box_bounds(obj.lo.z, obj.hi.z, margin)
        dx == Min(local.x - bx.min, bx.max - local.x)
        dy == Min(local.y - by.min, by.max - local.y)
        dz == Min(local.z - bz.min, bz.max - local.z)
        side(v, b) == IF v - b.min < b.max - v THEN b.min ELSE b.max
        moved ==
            IF dx <= dy /\ dx <= dz THEN [local EXCEPT !.x = side(local.x, bx)]
            ELSE IF dy <= dz THEN [local EXCEPT !.y = side(local.y, by)]
            ELSE [local EXCEPT !.z = side(local.z, bz)]
    IN  IF /\ bx.min <= local.x /\ local.x <= bx.max
           /\ by.min <= local.y /\ local.y <= by.max
           /\ bz.min <= local.z /\ local.z <= bz.max
        THEN VAdd(obj.origin, moved)
        ELSE point

\* the core segment and the radius of a capsule or cylinder object: origin,
\* dimensions, zaxis (the image of its Z axis)
capsule_of_object(obj, margin) ==
    LET base_radius == Max(obj.dimensions.x, obj.dimensions.y) \div 2
        half_height == Max(0, obj.dimensions.z \div 2 - base_radius) + margin
        axis == VNormalized(obj.zaxis)
    IN  [radius |-> base_radius + margin,
         axis |-> axis,
         p0 |-> VSub(obj.origin, VScale(axis, half_height, VNorm)),
         p1 |-> VAdd(obj.origin, VScale(axis, half_height, VNorm))]

_collide_capsule(point, obj, margin) ==
    LET cap == capsule_of_object(obj, margin)
    IN  IF cap.radius <= 0 THEN point
        ELSE IF VLen2(obj.zaxis) = 0 THEN point
        ELSE push_from_segment(point, cap.p0, cap.p1, cap.axis, cap.radius)

_apply_object_collider(point, col) ==
    IF col.shape = "SPHERE" THEN _collide_sphere(point, col.obj, col.margin)
    ELSE IF col.shape \in {"CAPSULE", "CYLINDER"}
    THEN _collide_capsule(point, col.obj, col.margin)
    ELSE _collide_box(point, col.obj, col.margin)

\* ------------------------------------------------------------------ C12
\* The resolvers called directly on one candidate point: two bones that
\* fork from one joint (as two children of one bone do), a plane, a sphere,
\* a box and a capsule object.
BoneA == [name |-> 3, head |-> VZero, tail |-> V3(0, 100, 0), radius |-> 25]
BoneB == [name |-> 4, head |-> VZero, tail |-> V3(60, 80, 0), radius |-> 25]
CollisionBoneCases == {<<BoneA>>, <<BoneA, BoneB>>, <<BoneB, BoneA>>}
PlaneObject == [origin |-> VZero, zaxis |-> V3(3, 4, 0)]
SphereObject == [origin |-> V3(0 - 25, 0, 0), dimensions |-> V3(100, 100, 100)]
BoxObject == [origin |-> VZero, lo |-> V3(0 - 50, 0 - 25, 0 - 25),
              hi |-> V3(50, 75, 25)]
CapsuleObject == [origin |-> V3(0, 50, 0), dimensions |-> V3(50, 50, 150),
                  zaxis |-> V3(0, 1, 0)]
CollidePoints ==
    {VZero, V3(0, 50, 0), V3(25, 50, 0), V3(75, 100, 0), V3(30, 40, 0),
     V3(0 - 25, 25, 0), V3(0 - 25, 0 - 25, 0), V3(0 - 25, 0, 0)}

InitCollide ==
    /\ parent = Armature
    /\ selected = <<>> /\ obj_trees = <<>>
    /\ host = <<>> /\ host0 = <<>>
    /\ \E bones \in CollisionBoneCases :
          core = [collision_margin |-> 0, collision_length_offset |-> 0,
                  collision_bones |-> bones,
                  collision_plane |-> _cache_collision_plane(PlaneObject)]
    /\ \E p \in CollidePoints : sjps = [point |-> p]
    /\ op = "collide"
    /\ pose_match_cache = <<>>
    /\ pc = "collide" /\ result = <<>> /\ reports = <<>>
    /\ fi = 0 /\ si = 0 /\ ci = 0

Collided(resolver, corrected) ==
    /\ pc = "collide"
    /\ result' = [resolver |-> resolver, point |-> corrected]
    /\ pc' = "collided"
    /\ UNCHANGED <<parent, selected, obj_trees, host, core, sjps, op, reports,
                   pose_match_cache, fi, si, ci, host0>>

CollideBones ==
    Collided("bones", _apply_capsule_collision(core, sjps.point,
                                               core.collision_bones, {}))
CollidePlane ==
    Collided("plane", _apply_plane_collision(sjps.point, core.collision_plane))
CollideSphere ==
    Collided("sphere", _apply_object_collider(
                 sjps.point, [obj |-> SphereObject, shape |-> "SPHERE",
                              margin |-> 0]))
CollideBox ==
    Collided("box", _apply_object_collider(
                 sjps.point, [obj |-> BoxObject, shape |-> "BOX", margin |-> 0]))
CollideCapsule ==
    Collided("capsule", _apply_object_collider(
                 sjps.point, [obj |-> CapsuleObject, shape |-> "CAPSULE",
                              margin |-> 0]))

NextCollide ==
    \/ CollideBones \/ CollidePlane \/ CollideSphere \/ CollideBox
    \/ CollideCapsule

SpecCollide == InitCollide /\ [][NextCollide]_vars

\* p is nearer than radius to the segment a..b (no square root taken)
InsideCapsule(p, a, b, radius) ==
    LET ab == VSub(b, a)
        ap == VSub(p, a)
        d  == VDot(ap, ab)
    IN  IF d <= 0 THEN VLen2(ap) < radius * radius
        ELSE IF d >= VLen2(ab) THEN VLen2(VSub(p, b)) < radius * radius
        ELSE VLen2(ap) * VLen2(ab) - d * d < radius * radius * VLen2(ab)

InsideBoneCapsule(p, pbn) ==
    LET cap == _capsule_from_bone(core, pbn)
    IN  InsideCapsule(p, cap.head, cap.tail, cap.radius)

InsideSphere(p) ==
    VLen2(VSub(p, SphereObject.origin))
        < (Max3(SphereObject.dimensions) \div 2) * (Max3(SphereObject.dimensions) \div 2)

InsideBox(p) ==
    LET l == VSub(p, BoxObject.origin)
    IN  /\ BoxObject.lo.x < l.x /\ l.x < BoxObject.hi.x
        /\ BoxObject.lo.y < l.y /\ l.y < BoxObject.hi.y
        /\ BoxObject.lo.z < l.z /\ l.z < BoxObject.hi.z

InsideCapsuleObject(p) ==
    LET cap == capsule_of_object(CapsuleObject, 0)
    IN  InsideCapsule(p, cap.p0, cap.p1, cap.radius)

BelowPlane(p) == VDot(VSub(p, PlaneObject.origin), PlaneObject.zaxis) < 0

\* the point is strictly inside an obstacle the resolver handles
InsideHandled(resolver, p) ==
    CASE resolver = "bones" ->
            \E i \in DOMAIN core.collision_bones :
                InsideBoneCapsule(p, core.collision_bones[i])
      [] resolver = "plane" -> BelowPlane(p)
      [] resolver = "sphere" -> InsideSphere(p)
      [] resolver = "box" -> InsideBox(p)
      [] resolver = "capsule" -> InsideCapsuleObject(p)

\* C12: whatever the resolver and the input point, the returned point is
\* not strictly inside any obstacle the resolver handled (at least the
\* radius away from every capsule's segment and from the sphere's centre,
\* on or outside the box, on or above the plane), and a point that needs
\* no correction is returned unchanged.
C12_NeverInsideHandledObstacle ==
    (op = "collide" /\ pc = "collided") =>
        /\ ~InsideHandled(result.resolver, result.point)
        /\ ~InsideHandled(result.resolver, sjps.point)
              => result.point = sjps.point

\* ------------------------------------------------------------------ C13
\* calculate_step on an animated armature: the chains are built and their
\* pre-data set at the scene's first frame; the caller then moves the scene
\* one frame on or steps any chain (fi counts the steps), with the
\* threshold at its default, at a third and at two thirds of a unit vector
\* (the phase of a bone that lags half a turn is 2/delay long).
ThresholdCases == {threshold_m, Quot(PDen, delay), Quot(2 * PDen, delay)}

InitStep ==
    /\ parent = Armature
    /\ \E sc \in SelectionCases :
          /\ selected = get_effective_selection(sc.sel, sc.use_chain)
          /\ get_tree_list(parent, selected) # <<>>
    /\ \E sc \in SceneCases :
          /\ sc.anim # "none"
          /\ host = InitialHost(sc.anim, sc.mode, sc.frame0)
    /\ host0 = host
    /\ \E n \in 1..MaxSub, th \in ThresholdCases :
          core = [NewCore EXCEPT !.sub_steps = n, !.threshold = th]
    /\ obj_trees = set_pre_data(core, host, get_tree_list(parent, selected))
    /\ sjps = <<>> /\ op = "step"
    /\ pose_match_cache = <<>>
    /\ pc = "core_ready" /\ result = "" /\ reports = <<>>
    /\ fi = 0 /\ si = 0 /\ ci = 1

\* context.scene.frame_set(f) for the next frame
StepFrameSet ==
    /\ pc = "core_ready" /\ op = "step"
    /\ host.frame < MaxFrame
    /\ host' = frame_set(Marked(host, "step"), host.frame + 1)
    /\ UNCHANGED <<parent, selected, obj_trees, pc, core, sjps, op, result,
                   reports, pose_match_cache, fi, si, ci, host0>>

\* calculate_step of any chain; the key is inserted in every sub_steps-th
\* step, as the driver has it
StepCalculateStep ==
    /\ pc = "core_ready" /\ op = "step"
    /\ fi < MaxSteps
    /\ \E t \in DOMAIN obj_trees :
          LET sub_steps == Max(1, core.sub_steps)
              r == calculate_step(core, Marked(host, "step"), obj_trees[t],
                                  sub_steps,
                                  insert_key_of(si % sub_steps, sub_steps))
          IN  /\ host' = r.host
              /\ obj_trees' = [obj_trees EXCEPT ![t] = r.data]
    /\ fi' = fi + 1 /\ si' = si + 1
    /\ UNCHANGED <<parent, selected, core, sjps, op, result, reports,
                   pose_match_cache, ci, pc, host0>>

NextStep == StepFrameSet \/ StepCalculateStep

SpecStep == InitStep /\ [][NextStep]_vars

\* this step is a calculate_step of chain t: the host's next logged call
\* is the write of the chain's first bone
StepOfChain(t) ==
    /\ Len(host'.log) > Len(host.log)
    /\ host'.log[Len(host.log) + 1].ev = "write"
    /\ host'.log[Len(host.log) + 1].b = obj_trees[t].obj_list[1]

\* the phase vector of bone i of chain t in this step, after the division
\* by the delay, the recursion term, the sub-step fraction and the tension
\* damping, and before the threshold: from the chain's data before the
\* step and the position the bone is given
scaled_phase(t, i) ==
    LET d       == obj_trees[t]
        tag_pos == obj_trees'[t].pre_mt[i].pos
        new_y   == d.pre_mt[i].dir * PDen
        c_pos   == d.pre_mt[i + 1].pos
        y_vec   == IF c_pos # tag_pos THEN Sign(c_pos - tag_pos) * PDen ELSE new_y
        rcs     == Quot(d.old_vec[i] * recursion_m, PDen)
        phase   == Quot(new_y - Quot(y_vec * strength_m, PDen), delay) + rcs
        scaled  == Quot(phase, Max(1, core.sub_steps))
    IN  [y_vec |-> y_vec,
         phase |-> Quot(scaled * (PDen - tension_m), PDen)]

\* C13: in calculate_step, a phase vector that after the sub-step fraction
\* and the tension damping is shorter than the threshold is replaced by
\* zero: zero is added to y_vec and stored in old_vec[i]; one at or above
\* the threshold is added and stored as it is.
C13_DeadzoneBelowThreshold ==
    [][\A t \in DOMAIN obj_trees :
          StepOfChain(t) =>
             \A i \in DOMAIN obj_trees[t].obj_list :
                LET p == scaled_phase(t, i)
                    used == IF Abs(p.phase) < core.threshold THEN 0 ELSE p.phase
                IN  /\ obj_trees'[t].old_vec[i] = used
                    /\ obj_trees'[t].pre_mt[i].dir = Sign(p.y_vec + used)]_vars

\* a chain has been stepped with a threshold above the default and a bone's
\* phase vector, exactly as long as the threshold, has been kept
C13_Witness ==
    /\ op = "step" /\ fi > 0
    /\ core.threshold > threshold_m
    /\ \E t \in DOMAIN obj_trees : \E i \in DOMAIN obj_trees[t].old_vec :
          Abs(obj_trees[t].old_vec[i]) = core.threshold

\* ------------------------------------------------------------------ C14
\* execute_simulation called with a caller's progress callback.  The chains
\* are built and their pre-data set at the start frame; after every frame
\* the callback is called with (frames done, total frames) and answers
\* whether it wants the run aborted; result is the list of the calls made.
InitDrive ==
    /\ parent = Armature
    /\ \E sc \in SelectionCases :
          /\ selected = get_effective_selection(sc.sel, sc.use_chain)
          /\ get_tree_list(parent, selected) # <<>>
    /\ \E sc \in SceneCases : host = InitialHost(sc.anim, sc.mode, sc.frame0)
    /\ host0 = host
    /\ \E n \in 1..MaxSub, end \in (host.frame + 1)..MaxFrame :
          core = [NewCore EXCEPT !.sub_steps = n, !.sf = host.frame, !.ef = end]
    /\ obj_trees = set_pre_data(core, host, get_tree_list(parent, selected))
    /\ sjps = <<>> /\ op = "drive"
    /\ pose_match_cache = <<>>
    /\ pc = "sim_frame" /\ result = <<>> /\ reports = <<>>
    /\ fi = first_sim_frame(core) /\ si = 0 /\ ci = 1

\* the callback has been called for every frame simulated so far
ProgressReported == Len(result) = fi - first_sim_frame(core)

DriveFrameSet == ProgressReported /\ SimFrameSet

\* "progress_callback(idx + 1, total_frames)": what the callback returns is
\* not looked at
DriveProgress ==
    /\ op = "drive" /\ pc = "sim_frame"
    /\ ~ProgressReported
    /\ \E abort \in BOOLEAN :
          result' = Append(result, [current |-> Len(result) + 1,
                                    total |-> core.ef - core.sf,
                                    frame |-> host.frame,
                                    abort |-> abort])
    /\ UNCHANGED <<parent, selected, obj_trees, pc, host, core, sjps, op,
                   reports, pose_match_cache, fi, si, ci, host0>>

DriveReturn == ProgressReported /\ SimReturn

NextDrive == DriveFrameSet \/ SimStep \/ DriveProgress \/ DriveReturn

SpecDrive == InitDrive /\ [][NextDrive]_vars

\* C14: once the progress callback has asked to abort after frame f,
\* execute_simulation simulates and keys no frame after f; and the callback
\* is asked only between frames: when it is called every chain bone has
\* been written in every sub-step of f and keyed once.
C14_AbortStopsAfterFrame ==
    op = "drive" =>
        \A k \in DOMAIN result :
            LET f == result[k].frame
            IN  /\ \A b \in ChainBones :
                      /\ Count(SimLog, LAMBDA e : e.ev = "write" /\ e.b = b /\ e.f = f)
                            = Max(1, core.sub_steps)
                      /\ Count(SimLog, LAMBDA e : e.ev = "key" /\ e.b = b /\ e.f = f) = 1
                /\ result[k].abort =>
                      \A i \in DOMAIN SimLog : SimLog[i].f <= f

\* ------------------------------------------------- wind and the colliders
NoObject == <<>>

\* the wind is taken as if its object were always there
_calculate_wind_vector_unchecked(C) ==
    VScale(VNormalized(V3(0, 0, 1)), C.wind_max_strength, VNorm)

\* C.wind_wave is 0.5 + 0.5 * sin(phase) at the scene's time, in VNorm-ths
_calculate_wind_vector(C) ==
    LET obj == C.wind_object
        direction == VNormalized(obj.zaxis)
        swap == C.wind_min_strength > C.wind_max_strength
        min_strength == IF swap THEN C.wind_max_strength ELSE C.wind_min_strength
        max_strength == IF swap THEN C.wind_min_strength ELSE C.wind_max_strength
        strength == IF C.wind_frequency <= 0 THEN max_strength
                    ELSE min_strength
                         + Quot((max_strength - min_strength) * C.wind_wave, VNorm)
    IN  IF obj = NoObject THEN VZero
        ELSE IF VLen2(obj.zaxis) = 0 THEN VZero
        ELSE VScale(direction, strength, VNorm)

\* one object of the collection, lines 370-403: its shape ("" for none),
\* the reason it is skipped for ("" for none) and whether a Collision
\* modifier was added to it.  An object is its name, its type, its rigid
\* body's collision shape ("" without a rigid body), whether it has
\* collision settings, whether it has a COLLISION modifier, whether
\* modifiers.new succeeds on it, and its geometry.
collider_entry(C, obj, context) ==
    IF obj.rigid_body # ""
    THEN [shape |-> obj.rigid_body, skip_reason |-> "", registered |-> FALSE]
    ELSE IF obj.collision \/ obj.modifier
    THEN [shape |-> "BOX", skip_reason |-> "", registered |-> FALSE]
    ELSE IF C.collision_auto_register /\ context
    THEN IF obj.can_add
         THEN [shape |-> "BOX", skip_reason |-> "", registered |-> TRUE]
         ELSE [shape |-> "", skip_reason |-> "Auto-register failed",
               registered |-> FALSE]
    ELSE [shape |-> "", skip_reason |-> "No rigid body or collision",
          registered |-> FALSE]

\* an object that is not a mesh is passed over without a note
skip_non_mesh_silently(acc, obj) == acc

\* self._skipped_colliders.append((obj.name, obj.type, "Not a mesh"))
skip_non_mesh(acc, obj) ==
    [acc EXCEPT !.skipped = Append(@, <<obj.name, obj.type, "Not a mesh">>)]

RECURSIVE cache_objects(_, _, _, _)
\* the loop over collision_collection.all_objects, lines 364-416
cache_objects(C, objs, context, acc) ==
    IF objs = <<>> THEN acc
    ELSE LET obj == Head(objs)
             e   == collider_entry(C, obj, context)
             acc1 ==
                 IF obj.type # "MESH" THEN skip_non_mesh(acc, obj)
                 ELSE IF e.shape = ""
                 THEN [acc EXCEPT !.skipped =
                          Append(@, <<obj.name, obj.type,
                                      IF e.skip_reason # "" THEN e.skip_reason
                                      ELSE "No collision shape">>)]
                 ELSE [acc EXCEPT
                          !.colliders =
                              Append(@, [obj |-> obj,
                                         shape |-> IF e.shape \in {"CONVEX_HULL", "MESH"}
                                                   THEN "BOX" ELSE e.shape,
                                         margin |-> 0]),
                          !.auto_registered =
                              IF e.registered THEN Append(@, obj.name) ELSE @]
         IN  cache_objects(C, Tail(objs), context, acc1)

\* _collection_colliders, and the two lists returned
_cache_collection_colliders(C, context) ==
    LET none == [colliders |-> <<>>, skipped |-> <<>>, auto_registered |-> <<>>]
    IN  IF C.collision_collection = NoObject THEN none
        ELSE cache_objects(C, C.collision_collection, context, none)

RECURSIVE _apply_collection_collision(_, _)
_apply_collection_collision(point, colliders) ==
    IF colliders = <<>> THEN point
    ELSE _apply_collection_collision(
             _apply_object_collider(point,
                 [obj |-> Head(colliders).obj.geometry,
                  shape |-> Head(colliders).shape,
                  margin |-> Head(colliders).margin]),
             Tail(colliders))

\* set_pre_data, lines 282-293: the caches of the enabled features
cache_features(C, context) ==
    LET cc == IF C.use_collision_collection
              THEN _cache_collection_colliders(C, context)
              ELSE [colliders |-> C.collection_colliders, skipped |-> <<>>,
                    auto_registered |-> <<>>]
    IN  [core |-> [C EXCEPT
                      !.collision_plane =
                          IF C.use_collision_plane
                          THEN _cache_collision_plane(C.collision_plane_object)
                          ELSE @,
                      !.collection_colliders = cc.colliders],
         skipped_colliders |-> cc.skipped,
         auto_registered |-> cc.auto_registered]

\* calculate_step, lines 688 and 779-796: the wind vector of the step and
\* the tip of a bone after the enabled collisions
wind_vec_world(C) ==
    IF C.use_wind_object THEN _calculate_wind_vector(C) ELSE VZero

\* the moving bone without its parent
exclude_names_without_parent(obj) ==
    {obj} \cup SeqToSet(Children(parent, obj))

\* exclude_names of lines 787-791: the bone, its parent and its children
exclude_names(obj) ==
    {obj} \cup (IF parent[obj] # NoBone THEN {parent[obj]} ELSE {})
          \cup SeqToSet(Children(parent, obj))

\* the plane is applied first and the bone capsules last
corrected_tip_plane_first(C, obj, tip_pos) ==
    LET t1 == IF C.use_collision_plane /\ C.collision_plane # NoPlane
              THEN _apply_plane_collision(tip_pos, C.collision_plane)
              ELSE tip_pos
        t2 == IF C.use_collision_collection /\ C.collection_colliders # <<>>
              THEN _apply_collection_collision(t1, C.collection_colliders)
              ELSE t1
    IN  IF C.use_collision /\ C.collision_bones # <<>>
        THEN _apply_capsule_collision(C, t2, C.collision_bones,
                                      exclude_names(obj))
        ELSE t2

\* corrected_tip of lines 785-796, for the tip tip_pos of the bone obj
corrected_tip(C, obj, tip_pos) ==
    LET t1 == IF C.use_collision /\ C.collision_bones # <<>>
              THEN _apply_capsule_collision(C, tip_pos, C.collision_bones,
                                            exclude_names(obj))
              ELSE tip_pos
        t2 == IF C.use_collision_collection /\ C.collection_colliders # <<>>
              THEN _apply_collection_collision(t1, C.collection_colliders)
              ELSE t1
    IN  IF C.use_collision_plane /\ C.collision_plane # NoPlane
        THEN _apply_plane_collision(t2, C.collision_plane)
        ELSE t2

\* ------------------------------------------------------------------ C15
\* The part of a Calculate run that has to do with the wind object, the
\* collision plane and the collision collection: the settings are taken
\* over, set_pre_data caches the enabled features and the operator reports
\* what it returned, and a step takes the wind vector and corrects a bone's
\* tip.  A collection is a list of at most MaxObjects objects.
MaxObjects == 2

NoGeometry == BoxObject
ObjectKinds ==
    {[name |-> 0, type |-> "EMPTY", rigid_body |-> "", collision |-> FALSE,
      modifier |-> FALSE, can_add |-> TRUE, geometry |-> NoGeometry],
     [name |-> 0, type |-> "MESH", rigid_body |-> "SPHERE", collision |-> FALSE,
      modifier |-> FALSE, can_add |-> TRUE, geometry |-> SphereObject],
     [name |-> 0, type |-> "MESH", rigid_body |-> "CONVEX_HULL",
      collision |-> FALSE, modifier |-> FALSE, can_add |-> TRUE,
      geometry |-> BoxObject],
     [name |-> 0, type |-> "MESH", rigid_body |-> "", collision |-> TRUE,
      modifier |-> TRUE, can_add |-> TRUE, geometry |-> BoxObject],
     [name |-> 0, type |-> "MESH", rigid_body |-> "", collision |-> FALSE,
      modifier |-> FALSE, can_add |-> TRUE, geometry |-> BoxObject],
     [name |-> 0, type |-> "MESH", rigid_body |-> "", collision |-> FALSE,
      modifier |-> FALSE, can_add |-> FALSE, geometry |-> BoxObject]}

\* the objects of a collection are named 1, 2, ...
Collections ==
    UNION {{[i \in 1..n |-> [kinds[i] EXCEPT !.name = i]] :
               kinds \in [1..n -> ObjectKinds]} : n \in 0..MaxObjects}

WindObject == [origin |-> VZero, zaxis |-> V3(0, 3, 4)]

InitFeatures ==
    /\ parent = Armature
    /\ selected = <<>> /\ obj_trees = <<>>
    /\ host = <<>> /\ host0 = <<>>
    /\ \E wind \in {NoObject, WindObject}, plane \in {NoPlane, PlaneObject},
          coll \in {NoObject} \cup Collections,
          use_wind \in BOOLEAN, use_plane \in BOOLEAN, use_coll \in BOOLEAN,
          auto \in BOOLEAN :
          core = [collision_margin |-> 0, collision_length_offset |-> 0,
                  use_collision |-> TRUE, collision_bones |-> <<BoneA>>,
                  use_wind_object |-> use_wind, wind_object |-> wind,
                  wind_min_strength |-> 0, wind_max_strength |-> 2 * VNorm,
                  wind_frequency |-> 0, wind_wave |-> 0,
                  use_collision_plane |-> use_plane,
                  collision_plane_object |-> plane,
                  collision_plane |-> NoPlane,
                  use_collision_collection |-> use_coll,
                  collision_collection |-> coll,
                  collision_auto_register |-> auto,
                  collection_colliders |-> <<>>]
    /\ sjps = [point |-> V3(0 - 25, 0 - 25, 0), bone |-> 4]
    /\ op = "features"
    /\ pose_match_cache = <<>>
    /\ pc = "feat_new" /\ result = <<>> /\ reports = <<>>
    /\ fi = 0 /\ si = 0 /\ ci = 0

\* the first five names and the count, as the operator's messages give them
ReportOf(level, names) ==
    IF names = <<>> THEN <<>>
    ELSE <<[level |-> level, about |-> "collision_collection",
            names |-> SubSeq(names, 1, Min(5, Len(names))),
            count |-> Len(names)]>>

\* core.set_pre_data(obj_trees, context) and the operator's two reports
FeatSetPreData ==
    /\ pc = "feat_new"
    /\ LET r == cache_features(core, TRUE)
       IN  /\ core' = r.core
           /\ result' = [skipped_colliders |-> r.skipped_colliders,
                         auto_registered |-> r.auto_registered]
           /\ reports' = reports
                  \o ReportOf("INFO", r.auto_registered)
                  \o ReportOf("WARNING",
                              [i \in DOMAIN r.skipped_colliders |->
                                  r.skipped_colliders[i][1]])
    /\ pc' = "feat_cached"
    /\ UNCHANGED <<parent, selected, obj_trees, host, sjps, op,
                   pose_match_cache, fi, si, ci, host0>>

\* one bone of calculate_step: the wind vector and the corrected tip
FeatStep ==
    /\ pc = "feat_cached"
    /\ result' = [skipped_colliders |-> result.skipped_colliders,
                  auto_registered |-> result.auto_registered,
                  wind_vec |-> wind_vec_world(core),
                  tip |-> corrected_tip(core, sjps.bone, sjps.point)]
    /\ pc' = "feat_stepped"
    /\ UNCHANGED <<parent, selected, obj_trees, host, core, sjps, op, reports,
                   pose_match_cache, fi, si, ci, host0>>

NextFeatures == FeatSetPreData \/ FeatStep

SpecFeatures == InitFeatures /\ [][NextFeatures]_vars

WindUnset == core.use_wind_object /\ core.wind_object = NoObject
PlaneUnset == core.use_collision_plane /\ core.collision_plane_object = NoPlane
CollectionUnset ==
    core.use_collision_collection /\ core.collision_collection = NoObject

\* the features that are enabled and unset contribute nothing, and the
\* tip is corrected by the others as if those were switched off
UnsetContributeNothing ==
    /\ WindUnset => result.wind_vec = VZero
    /\ PlaneUnset =>
          result.tip = corrected_tip([core EXCEPT !.use_collision_plane = FALSE],
                                     sjps.bone, sjps.point)
    /\ CollectionUnset =>
          /\ core.collection_colliders = <<>>
          /\ result.tip = corrected_tip(
                              [core EXCEPT !.use_collision_collection = FALSE],
                              sjps.bone, sjps.point)

ReportedAbout(feature) ==
    \E i \in DOMAIN reports : reports[i].about = feature

\* C15 as stated: when the wind object, the collision plane object or the
\* collision collection is enabled but unset, the run goes on with that
\* feature contributing nothing and the others applied, and an advisory
\* message about the disabled feature is reported.
C15_UnsetFeatureReported ==
    (op = "features" /\ pc = "feat_stepped") =>
        /\ UnsetContributeNothing
        /\ WindUnset => ReportedAbout("wind_object")
        /\ PlaneUnset => ReportedAbout("collision_plane_object")
        /\ CollectionUnset => ReportedAbout("collision_collection")

\* C15 amended: the run goes on with that feature contributing nothing and
\* the others applied, and nothing is reported about it: the only reports
\* are those of the collection's auto-registered and skipped objects.
C15_UnsetFeatureSilentlyOff ==
    (op = "features" /\ pc = "feat_stepped") =>
        /\ UnsetContributeNothing
        /\ WindUnset => ~ReportedAbout("wind_object")
        /\ PlaneUnset => ~ReportedAbout("collision_plane_object")
        /\ CollectionUnset => reports = <<>>

\* a step with the wind object and the plane enabled and unset, and a
\* collection whose collider has moved the tip
C15_Witness ==
    /\ op = "features" /\ pc = "feat_stepped"
    /\ WindUnset /\ PlaneUnset
    /\ core.collection_colliders # <<>>
    /\ result.tip # sjps.point
    /\ result.tip # corrected_tip([core EXCEPT !.use_collision_collection = FALSE],
                                  sjps.bone, sjps.point)


\* ------------------------------------------------------------------ C16
CollectionCached ==
    /\ op = "features" /\ pc \in {"feat_cached", "feat_stepped"}
    /\ core.use_collision_collection /\ core.collision_collection # NoObject

ColliderOf(obj) ==
    {i \in DOMAIN core.collection_colliders :
        core.collection_colliders[i].obj.name = obj.name}

SkippedOf(obj) ==
    {i \in DOMAIN result.skipped_colliders :
        result.skipped_colliders[i][1] = obj.name}

\* a mesh that nothing makes a collider of
Unusable(obj) ==
    /\ obj.type = "MESH" /\ obj.rigid_body = ""
    /\ ~obj.collision /\ ~obj.modifier
    /\ ~core.collision_auto_register

\* C16: every object of the collision collection is in exactly one of the
\* collider list and the skipped list; a non-mesh object, and a mesh with no
\* rigid body, no collision capability and no auto-registration, is skipped
\* with a reason; the run goes on, and the skipped list comes back and is
\* reported as a warning that counts it.
C16_EveryObjectColliderOrSkipped ==
    CollectionCached =>
        LET objs == core.collision_collection
        IN  /\ \A k \in DOMAIN objs :
                  /\ Cardinality(ColliderOf(objs[k]))
                       + Cardinality(SkippedOf(objs[k])) = 1
                  /\ (objs[k].type # "MESH" \/ Unusable(objs[k])) =>
                        /\ ColliderOf(objs[k]) = {}
                        /\ \A i \in SkippedOf(objs[k]) :
                              /\ result.skipped_colliders[i][2] = objs[k].type
                              /\ result.skipped_colliders[i][3] # ""
            /\ Len(core.collection_colliders) + Len(result.skipped_colliders)
                 = Len(objs)
            /\ result.skipped_colliders # <<>> =>
                  \E i \in DOMAIN reports :
                      /\ reports[i].level = "WARNING"
                      /\ reports[i].count = Len(result.skipped_colliders)
                      /\ \A j \in DOMAIN reports[i].names :
                            reports[i].names[j] = result.skipped_colliders[j][1]
            /\ result.skipped_colliders = <<>> =>
                  \A i \in DOMAIN reports : reports[i].level # "WARNING"

\* a collection with a collider and a skipped non-mesh object, the warning
\* reported and the step made after it
C16_Witness ==
    /\ CollectionCached /\ pc = "feat_stepped"
    /\ core.collection_colliders # <<>>
    /\ \E k \in DOMAIN core.collision_collection :
          /\ core.collision_collection[k].type # "MESH"
          /\ SkippedOf(core.collision_collection[k]) # {}
    /\ \E i \in DOMAIN reports : reports[i].level = "WARNING"


\* ------------------------------------------------------------------ C17
\* the rigid target of bone i of chain t in this step: cur_p_mt x
\* obj_length[i], cur_p_mt being the parent's transform in the host for the
\* first bone and the transform just given to bone i-1 for the others
rigid_target(t, i) ==
    LET first_bone == obj_trees[t].obj_list[1]
        cur_p_mt == IF i > 1 THEN obj_trees'[t].pre_mt[i - 1]
                    ELSE IF parent[first_bone] # NoBone
                    THEN MtMul(amt_world, host.mat[parent[first_bone]])
                    ELSE amt_world
    IN  MtMul(cur_p_mt, obj_trees[t].obj_length[i])

first_target_now(t) ==
    LET first_bone == obj_trees[t].obj_list[1]
    IN  MtMul(IF parent[first_bone] # NoBone
              THEN MtMul(amt_world, host.mat[parent[first_bone]])
              ELSE amt_world,
              obj_trees[t].obj_length[1])

ChainsOf(trees) ==
    {[depth |-> trees[i].depth, obj_list |-> trees[i].obj_list] :
        i \in DOMAIN trees}

\* C18: the result of get_tree_list does not depend on the order of the
\* selection list: whatever the order, there are as many chains as for the
\* same selection in ascending order, and they are the same bone sequences
\* under the same depths; only names and creation order may differ.
C18_SelectionOrderIrrelevant ==
    (op = "none" /\ pc = "built") =>
        LET sorted == get_tree_list(parent, SortedSeq(SeqToSet(selected)))
        IN  /\ Len(obj_trees) = Len(sorted)
            /\ ChainsOf(obj_trees) = ChainsOf(sorted)

\* a selection that is not in ascending order and lists a bone before its
\* parent, built into two chains or more that come in another order than
\* those of the ascending selection
C18_Witness ==
    /\ op = "none" /\ pc = "built"
    /\ Len(obj_trees) >= 2
    /\ \E i, j \in DOMAIN selected : i < j /\ parent[selected[i]] = selected[j]
    /\ \E i \in DOMAIN obj_trees :
          /\ Len(obj_trees[i].obj_list) >= 2
          /\ obj_trees[i].obj_list
                # get_tree_list(parent, SortedSeq(SeqToSet(selected)))[i].obj_list

\* ------------------------------------------------------------------ C19
\* the bones written to the host in this step, in the order of the writes
written_bones ==
    LET IsWrite(e) == e.ev = "write"
        writes == SelectSeq(SubSeq(host'.log, Len(host.log) + 1, Len(host'.log)),
                            IsWrite)
    IN  [k \in DOMAIN writes |-> writes[k].b]

\* C19: within one calculate_step the bones are processed in index order;
\* the target of the first bone is computed from its parent's transform in
\* the host as it is when the call is made, and the target of every later
\* bone from the new transform this call has given to the bone before it,
\* not from the transform that bone had before the call.
C19_TargetsFromUpdatedPredecessor ==
    [][\A t \in DOMAIN obj_trees :
          StepOfChain(t) =>
             /\ written_bones = obj_trees[t].obj_list
             /\ \A i \in DOMAIN obj_trees[t].obj_list :
                   LET new_mt == obj_trees'[t].pre_mt[i]
                   IN  /\ i = 1 => new_mt.pos = rigid_target(t, 1).pos
                       /\ i > 1 =>
                             new_mt.pos
                               = MtMul(obj_trees'[t].pre_mt[i - 1],
                                       obj_trees[t].obj_length[i]).pos]_vars

\* a chain of two bones or more has been stepped, its first bone has got a
\* transform other than the one it had when the chain's data were set, and
\* the second bone sits where the first one's new transform puts it and
\* not where the old one would
C19_Witness ==
    /\ op = "step" /\ fi > 0
    /\ \E t \in DOMAIN obj_trees :
          LET d   == obj_trees[t]
              old == MtMul(amt_world, host0.mat[d.obj_list[1]])
          IN  /\ Len(d.obj_list) >= 2
              /\ d.pre_mt[2].pos = MtMul(d.pre_mt[1], d.obj_length[2]).pos
              /\ d.pre_mt[2].pos # MtMul(old, d.obj_length[2]).pos


BoneP == [name |-> 2, head |-> VZero, tail |-> V3(100, 0, 0), radius |-> 25]
TipBoneCases == {<<BoneA, BoneB, BoneP>>, <<BoneP, BoneB, BoneA>>}

SphereCollider ==
    [obj |-> [name |-> 1, geometry |-> SphereObject], shape |-> "SPHERE",
     margin |-> 0]
BoxCollider ==
    [obj |-> [name |-> 2, geometry |-> BoxObject], shape |-> "BOX",
     margin |-> 0]
TipColliderCases ==
    {<<SphereCollider>>, <<BoxCollider>>, <<BoxCollider, SphereCollider>>}

\* the plane's object: the plane y = 0 with its normal along +Y
TipPlaneObject == [origin |-> VZero, zaxis |-> V3(0, 1, 0)]

\* the moving bone and its candidate tip
TipCases ==
    {[bone |-> 3, point |-> V3(0 - 25, 0 - 25, 0)],
     [bone |-> 3, point |-> V3(25, 50, 0)],
     [bone |-> 4, point |-> V3(25, 50, 0)],
     [bone |-> 2, point |-> V3(25, 50, 0)],
     [bone |-> 3, point |-> V3(50, 15, 0)],
     [bone |-> 4, point |-> V3(0 - 9, 0 - 12, 0)]}

InitTip ==
    /\ parent = Armature
    /\ selected = <<>> /\ obj_trees = <<>>
    /\ host = <<>> /\ host0 = <<>>
    /\ \E bones \in TipBoneCases, colliders \in TipColliderCases,
          use_bones \in BOOLEAN, use_plane \in BOOLEAN, use_coll \in BOOLEAN :
          core = [collision_margin |-> 0, collision_length_offset |-> 0,
                  use_collision |-> use_bones, collision_bones |-> bones,
                  use_collision_plane |-> use_plane,
                  collision_plane |-> _cache_collision_plane(TipPlaneObject),
                  use_collision_collection |-> use_coll,
                  collection_colliders |-> colliders]
    /\ sjps \in TipCases
    /\ op = "tip"
    /\ pose_match_cache = <<>>
    /\ pc = "tip" /\ result = <<>> /\ reports = <<>>
    /\ fi = 0 /\ si = 0 /\ ci = 0

\* lines 785-796: corrected_tip from tip_pos
TipCorrect ==
    /\ pc = "tip"
    /\ result' = [tip |-> corrected_tip(core, sjps.bone, sjps.point)]
    /\ pc' = "tip_done"
    /\ UNCHANGED <<parent, selected, obj_trees, host, core, sjps, op, reports,
                   pose_match_cache, fi, si, ci, host0>>

NextTip == TipCorrect

SpecTip == InitTip /\ [][NextTip]_vars

\* the point after the bone capsules, if that mode is on
AfterBones ==
    IF core.use_collision
    THEN _apply_capsule_collision(core, sjps.point, core.collision_bones,
                                  exclude_names(sjps.bone))
    ELSE sjps.point

\* the point after the collection's colliders, if that mode is on
AfterCollection ==
    IF core.use_collision_collection
    THEN _apply_collection_collision(AfterBones, core.collection_colliders)
    ELSE AfterBones

\* C21: the resolvers are applied in the order bone capsules, collection
\* colliders, plane, each active one to the point the previous active one
\* returned; so whenever the plane is active the corrected tip is on or in
\* front of the plane.
C21_ResolversInFixedOrder ==
    (op = "tip" /\ pc = "tip_done") =>
        /\ result.tip = IF core.use_collision_plane
                        THEN _apply_plane_collision(AfterCollection,
                                                    core.collision_plane)
                        ELSE AfterCollection
        /\ core.use_collision_plane =>
              VDot(VSub(result.tip, core.collision_plane.point),
                   core.collision_plane.normal) >= 0

\* all three modes are on and each stage has moved the point it was given
C21_Witness ==
    /\ op = "tip" /\ pc = "tip_done"
    /\ core.use_collision /\ core.use_collision_collection
    /\ core.use_collision_plane
    /\ AfterBones # sjps.point
    /\ AfterCollection # AfterBones
    /\ result.tip # AfterCollection


\* ------------------------------------------------------------------ C22
\* the cached capsules of the bones that are neither the moving bone, nor
\* its parent, nor one of its children, in cache order
OtherCapsules ==
    LET b == sjps.bone
        IsOther(cap) == /\ cap.name # b
                        /\ cap.name # parent[b]
                        /\ parent[cap.name] # b
    IN  SelectSeq(core.collision_bones, IsOther)

BoneCapsulesOnly ==
    /\ op = "tip" /\ pc = "tip_done"
    /\ core.use_collision
    /\ ~core.use_collision_collection /\ ~core.use_collision_plane

\* C22: with bone-capsule collision active, the tip of the moving bone is
\* not corrected against the capsule of the bone itself, of its parent or of
\* a child of it, and it is tested against the capsule of every other
\* cached bone: the corrected tip is what pushing the tip out of the other
\* capsules in turn gives, it is the tip itself when there is no other, and
\* it is outside the other capsule when there is just one.
C22_NeighbourCapsulesExcluded ==
    BoneCapsulesOnly =>
        /\ result.tip
             = _apply_capsule_collision(core, sjps.point, OtherCapsules, {})
        /\ OtherCapsules = <<>> => result.tip = sjps.point
        /\ Len(OtherCapsules) = 1 =>
              ~InsideBoneCapsule(result.tip, OtherCapsules[1])

\* the tip was inside the moving bone's own capsule and inside a sibling's:
\* it has been moved out of the sibling's, the only other capsule
C22_Witness ==
    /\ BoneCapsulesOnly
    /\ Len(OtherCapsules) = 1
    /\ \E i \in DOMAIN core.collision_bones :
          /\ core.collision_bones[i].name = sjps.bone
          /\ InsideBoneCapsule(sjps.point, core.collision_bones[i])
    /\ InsideBoneCapsule(sjps.point, OtherCapsules[1])
    /\ result.tip # sjps.point


\* ------------------------------------------------------------------ C23
\* the callers that are methods of the core: the simulation's
\* calculate_step and match_end_to_start
CoreWrite(e) == e.ev = "write" /\ e.mark.ph \in {"sim", "loop"}

\* C23: every bone transform write the core makes is followed by a flush of
\* the host pose (view_layer.update) before the transform of any other bone
\* is written, in calculate_step and in match_end_to_start: in the host's
\* call log an update lies between a write of the core and any later write
\* to another bone.
C23_WriteFlushedBeforeNextBone ==
    op = "calc" =>
        \A k \in DOMAIN host.log : \A j \in DOMAIN host.log :
            (/\ k < j
             /\ CoreWrite(host.log[k]) /\ host.log[j].ev = "write"
             /\ host.log[k].b # host.log[j].b)
            => \E m \in (k + 1)..(j - 1) : host.log[m].ev = "update"

\* ------------------------------------------------------------------ C24
\* set_pre_data has been called and no step made since the chains were built
AfterPrePass == op = "core" /\ pc = "core_ready" /\ fi = 0

\* the world position of the far end of the bone the i-th entry of a
\* chain's history belongs to, in the pose the host has
world_tail(d, i) ==
    LET pbn == d.obj_list[((i - 1) % Len(d.obj_list)) + 1]
    IN  MtMul(MtMul(amt_world, host.mat[pbn]), Mt(BoneLength, 1)).pos

\* C24 as stated: after pre-pass initialization, for every chain and every
\* bone index i, old_vec[i] is the zero vector and old_tip[i] is the zero
\* vector.
C24_HistoryZeroed ==
    AfterPrePass =>
        \A t \in DOMAIN obj_trees :
            /\ \A i \in DOMAIN obj_trees[t].old_vec : obj_trees[t].old_vec[i] = 0
            /\ \A i \in DOMAIN obj_trees[t].old_tip : obj_trees[t].old_tip[i] = 0

\* C24 amended: after pre-pass initialization every entry of old_vec is
\* the zero vector and every entry of old_tip is the world position of its
\* bone's tail in the pose captured (amt_world @ pbn.tail).
C24_HistoryZeroPhaseAndTailTip ==
    AfterPrePass =>
        \A t \in DOMAIN obj_trees :
            /\ \A i \in DOMAIN obj_trees[t].old_vec : obj_trees[t].old_vec[i] = 0
            /\ \A i \in DOMAIN obj_trees[t].old_tip :
                  obj_trees[t].old_tip[i] = world_tail(obj_trees[t], i)

\* the pre-pass has run on a chain of two bones whose tips are at two
\* places, neither of them the origin
C24_Witness ==
    /\ AfterPrePass
    /\ \E t \in DOMAIN obj_trees :
          /\ Len(obj_trees[t].obj_list) >= 2
          /\ obj_trees[t].old_tip[1] # 0 /\ obj_trees[t].old_tip[2] # 0
          /\ obj_trees[t].old_tip[1] # obj_trees[t].old_tip[2]
          /\ obj_trees[t].old_vec[1] = 0

\* ------------------------------------------------------------------ C25
\* The forces of calculate_step, lines 755-766, on a line: the phase vector
\* before them, the constant force, the wind object's vector and the scene
\* fields' force, all in PDen-ths.
SceneForceDen == 100        \* SCENE_FORCE_SCALE = 0.01

\* max(self.delay, 1.0)
force_delay(C) == Max(C.delay, 1)

\* phase_vec += force_vec_world * (1.0 / max(self.delay, 1.0))
force_term(C, force_vec_world) == Quot(force_vec_world, force_delay(C))

\* the wind scaled like a scene force
wind_term_scaled(C, wind_vec) ==
    Quot(Quot(wind_vec, SceneForceDen), force_delay(C))

\* phase_vec += wind_vec_world * (1.0 / max(self.delay, 1.0))
wind_term(C, wind_vec) == Quot(wind_vec, force_delay(C))

\* phase_vec += scene_force * SCENE_FORCE_SCALE * (1.0 / max(self.delay, 1.0))
scene_term(C, scene_force) ==
    Quot(Quot(scene_force, SceneForceDen), force_delay(C))

apply_forces(C, phase_vec, force_vec_world, wind_vec, scene_force) ==
    phase_vec
      + (IF C.use_force THEN force_term(C, force_vec_world) ELSE 0)
      + (IF C.use_wind_object /\ Abs(wind_vec) > 0
         THEN wind_term(C, wind_vec) ELSE 0)
      + (IF C.use_scene_fields THEN scene_term(C, scene_force) ELSE 0)

\* forces whose quotients by the delays and by SceneForceDen are whole
ForceCases == {0 - 6 * SceneForceDen, 0, 6 * SceneForceDen, 12 * SceneForceDen}

InitForce ==
    /\ parent = Armature
    /\ selected = <<>> /\ obj_trees = <<>>
    /\ host = <<>> /\ host0 = <<>>
    /\ \E d \in 1..delay, uf \in BOOLEAN, uw \in BOOLEAN, us \in BOOLEAN :
          core = [delay |-> d, use_force |-> uf, use_wind_object |-> uw,
                  use_scene_fields |-> us]
    /\ \E f \in ForceCases, w \in ForceCases, s \in ForceCases :
          sjps = [phase_vec |-> PDen,
                  force_vec_world |-> IF core.use_force THEN f ELSE 0,
                  wind_vec |-> IF core.use_wind_object THEN w ELSE 0,
                  scene_force |-> s]
    /\ op = "force"
    /\ pose_match_cache = <<>>
    /\ pc = "force" /\ result = <<>> /\ reports = <<>>
    /\ fi = 0 /\ si = 0 /\ ci = 0

ForceApply ==
    /\ pc = "force"
    /\ result' = [phase_vec |-> apply_forces(core, sjps.phase_vec,
                                             sjps.force_vec_world,
                                             sjps.wind_vec,
                                             sjps.scene_force)]
    /\ pc' = "forced"
    /\ UNCHANGED <<parent, selected, obj_trees, host, core, sjps, op, reports,
                   pose_match_cache, fi, si, ci, host0>>

NextForce == ForceApply

SpecForce == InitForce /\ [][NextForce]_vars

\* what the forces have added to the phase vector, times the delay and
\* times SceneForceDen
ForcesAdded ==
    (result.phase_vec - sjps.phase_vec) * Max(core.delay, 1) * SceneForceDen

\* C25 as stated: the constant force enters the phase vector as
\* force / max(delay, 1) with no further scaling, and every other force,
\* the wind and the scene fields' force alike, is multiplied by
\* SCENE_FORCE_SCALE as well.
C25_OnlyBaseForceUnscaled ==
    (op = "force" /\ pc = "forced") =>
        ForcesAdded = sjps.force_vec_world * SceneForceDen
                        + sjps.wind_vec
                        + (IF core.use_scene_fields THEN sjps.scene_force ELSE 0)

\* C25 amended: the constant force and the wind enter the phase vector
\* divided by max(delay, 1) with no further scaling; only the scene fields'
\* force is multiplied by SCENE_FORCE_SCALE as well.
C25_OnlySceneForceScaled ==
    (op = "force" /\ pc = "forced") =>
        ForcesAdded = sjps.force_vec_world * SceneForceDen
                        + sjps.wind_vec * SceneForceDen
                        + (IF core.use_scene_fields THEN sjps.scene_force ELSE 0)

\* the three forces are on and not zero, with a delay above 1
C25_Witness ==
    /\ op = "force" /\ pc = "forced"
    /\ core.use_force /\ core.use_wind_object /\ core.use_scene_fields
    /\ core.delay > 1
    /\ sjps.force_vec_world # 0 /\ sjps.wind_vec # 0
    /\ sjps.scene_force # 0
    /\ result.phase_vec # sjps.phase_vec


\* ------------------------------------------------------------------ C26
\* a Calculate run with a bake weight below 1 that has deleted or inserted
\* a keyframe
BlendingRunHasKeyed ==
    /\ op = "calc"
    /\ \E k \in DOMAIN host.log : host.log[k].ev \in {"key", "delete"}
    /\ core.bake_weight < WDen

\* the cache is complete: a snapshot per chain bone and frame of the range,
\* and a base pose per chain bone, each the bone's channels in the scene
\* as it was before the run, at that frame (at the start frame)
CacheComplete ==
    /\ DOMAIN core.existing_anim_cache = ChainBones
    /\ DOMAIN core.base_pose_cache = ChainBones
    /\ \A b \in ChainBones :
          /\ DOMAIN core.existing_anim_cache[b] = core.sf..core.ef
          /\ \A f \in core.sf..core.ef :
                core.existing_anim_cache[b][f] = frame_set(host0, f).chan[b]
          /\ core.base_pose_cache[b] = frame_set(host0, core.sf).chan[b]

\* every call made while the cache was built comes before every deletion
\* and insertion of a keyframe
CacheBuiltFirst ==
    \A k \in DOMAIN host.log : \A j \in DOMAIN host.log :
        (host.log[k].mark.ph = "cache" /\ host.log[j].ev \in {"key", "delete"})
        => k < j

\* the keyframe of log entry e was written by set_animkey for a bone and a
\* frame that have a cached snapshot: it is the blend of the two
KeyBlended(e) ==
    /\ e.mark.ph \in {"initial", "sim", "loop"}
    /\ e.b \in DOMAIN core.existing_anim_cache
    /\ e.f \in DOMAIN core.existing_anim_cache[e.b]

KeyedChannelCases == SUBSET Channels
KeyedFrameCases == {KeyFrames, {1}, {0, 2}}
DeleteSelections == {<<3>>, <<3, 4>>, <<2, 3>>}
DeleteRanges == {r \in [sf : 1..MaxFrame, ef : 1..MaxFrame] : r.sf <= r.ef}

\* a host whose selected bones are keyed on the channels chs at the
\* frames fs
HostKeyedOn(sel, chs, fs, rejects) ==
    LET H == InitialHost("none", "XYZ", 1)
    IN  [H EXCEPT !.rejects = rejects,
                  !.keys = [b \in Bones |-> [ch \in Channels |->
                               [f \in KeyFrames |->
                                   IF InSeq(sel, b) /\ ch \in chs /\ f \in fs
                                   THEN RestChannels[ch] ELSE NoKey]]]]

InitDelete ==
    /\ parent = Armature
    /\ selected \in DeleteSelections
    /\ obj_trees = get_tree_list(parent, selected)
    /\ \E chs \in KeyedChannelCases, fs \in KeyedFrameCases,
          rejects \in BOOLEAN :
          host = HostKeyedOn(selected, chs, fs, rejects)
    /\ host0 = host
    /\ \E r \in DeleteRanges, w \in {1, WDen} :
          core = [NewCore EXCEPT !.sf = r.sf, !.ef = r.ef, !.bake_weight = w]
    /\ sjps \in [force_delete : BOOLEAN]
    /\ op = "delete"
    /\ pose_match_cache = <<>>
    /\ pc = "delete" /\ result = <<>> /\ reports = <<>>
    /\ fi = 0 /\ si = 0 /\ ci = 0

\* lines 858-879: one call of delete_anim_keys
DeleteKeys ==
    /\ pc = "delete"
    /\ host' = delete_anim_keys(core, host, obj_trees, sjps.force_delete)
    /\ pc' = "deleted"
    /\ UNCHANGED <<parent, selected, obj_trees, core, sjps, op, result,
                   reports, pose_match_cache, fi, si, ci, host0>>

NextDelete == DeleteKeys

SpecDelete == InitDelete /\ [][NextDelete]_vars

\* the call was one that deletes: force_delete, or a bake weight of 1
DeleteRan ==
    /\ op = "delete" /\ pc = "deleted"
    /\ sjps.force_delete \/ core.bake_weight = WDen

NoKeyLeft ==
    \A b \in ChainBones : \A ch \in Channels :
        \A f \in (core.sf - 1)..core.ef : host.keys[b][ch][f] = NoKey

\* C27: when delete_anim_keys has run with force_delete or with bake
\* weight 1, no chain bone has a key on any of the four channels at any
\* frame in start-1..end, whether the host ignores or rejects the
\* deletion of a key that is not there.
C27_NoKeyLeftAfterDelete == DeleteRan => NoKeyLeft

\* the same on a host that ignores the deletion of a missing key
C27_NoKeyLeftOnTolerantHost == (DeleteRan /\ ~host.rejects) => NoKeyLeft

\* a run on a rejecting host that did clear keys that were there
C27_Witness ==
    /\ DeleteRan /\ host.rejects /\ NoKeyLeft
    /\ \E b \in ChainBones : \E f \in (core.sf - 1)..core.ef :
           host0.keys[b]["location"][f] # NoKey


\* ------------------------------------------------------------ C28
\* the places <<chain, position>> at which bone b stands in the chains
Occurrences(b) ==
    {ij \in UNION {{<<i, j>> : j \in DOMAIN obj_trees[i].obj_list} :
                      i \in DOMAIN obj_trees} :
        obj_trees[ij[1]].obj_list[ij[2]] = b}

\* b continues its parent's chain along selected first children up to a
\* selected bone without parent
RECURSIVE HangsOnParentless(_)
HangsOnParentless(b) ==
    /\ parent[b] # NoBone
    /\ InSeq(selected, parent[b])
    /\ Children(parent, parent[b])[1] = b
    /\ \/ parent[parent[b]] = NoBone
       \/ HangsOnParentless(parent[b])

\* C28: every selected bone that has a parent stands in exactly one chain
\* returned by get_tree_list, at exactly one position.
C28_SelectedBoneInExactlyOneChain ==
    pc = "built" =>
        \A b \in Bones :
            (InSeq(selected, b) /\ parent[b] # NoBone) =>
                Cardinality(Occurrences(b)) = 1

\* no bone stands at two places, and the selected bones with a parent that
\* stand in no chain are those hanging on a selected parentless bone
C28_LeftOutOnlyBelowParentless ==
    pc = "built" =>
        \A b \in Bones :
            /\ Cardinality(Occurrences(b)) <= 1
            /\ (InSeq(selected, b) /\ parent[b] # NoBone) =>
                   (Occurrences(b) = {} <=> HangsOnParentless(b))


\* ------------------------------------------------------------ C29
\* the chain about to be stepped in sub-step si of frame fi
NextChain == sorted_order(obj_trees)[ci]

\* the chains other than t that hold the parent of t's root bone
ParentChains(t) ==
    {u \in DOMAIN obj_trees \ {t} :
        InSeq(obj_trees[u].obj_list, parent[obj_trees[t].obj_list[1]])}

\* chain u has had its calculate_step in this sub-step
SteppedThisSubStep(u) ==
    \E k \in 1..(ci - 1) : sorted_order(obj_trees)[k] = u

\* bone b has been written in this sub-step and the scene evaluated since
WrittenAndFlushed(b) ==
    \E i, j \in DOMAIN host.log :
        /\ i < j
        /\ host.log[i].ev = "write" /\ host.log[i].b = b
        /\ host.log[i].mark = [ph |-> "sim", f |-> fi, s |-> si,
                               c |-> host.log[i].mark.c]
        /\ host.log[j].ev = "update"

\* C29: in every sub-step of execute_simulation, when the parent of the
\* root bone of the chain about to be stepped is a member of another
\* chain, that chain has been stepped in this sub-step already, and the
\* parent has been written and flushed in it.
C29_ParentChainSteppedFirst ==
    (op = "calc" /\ pc = "sim_step") =>
        \A u \in ParentChains(NextChain) :
            /\ SteppedThisSubStep(u)
            /\ WrittenAndFlushed(parent[obj_trees[NextChain].obj_list[1]])

\* the chain about to be stepped hangs on a bone of another chain, which
\* was created after it and has been moved in this sub-step
C29_Witness ==
    /\ op = "calc" /\ pc = "sim_step"
    /\ \E u \in ParentChains(NextChain) :
          /\ obj_trees[u].name > obj_trees[NextChain].name
          /\ SteppedThisSubStep(u)
          /\ host.mat[parent[obj_trees[NextChain].obj_list[1]]]
                # host0.mat[parent[obj_trees[NextChain].obj_list[1]]]


\* ------------------------------------------------------------ C30
CalculateFinished == op = "calc" /\ pc = "done" /\ result = "FINISHED"

KeyedOnAllChannels(b, f) ==
    \A ch \in Channels : host.keys[b][ch][f] # NoKey

\* C30: after a Calculate run that returns FINISHED every bone of every
\* chain has a key on location, rotation_euler, rotation_quaternion and
\* scale at every frame from the start frame to the end frame.
C30_EveryFrameKeyedAfterCalculate ==
    CalculateFinished =>
        \A b \in ChainBones : \A f \in core.sf..core.ef :
            KeyedOnAllChannels(b, f)

\* a finished run over three frames or more on bones that had no key at
\* all when it began
C30_Witness ==
    /\ CalculateFinished
    /\ core.ef >= core.sf + 2
    /\ ChainBones # {}
    /\ \A b \in ChainBones : \A f \in KeyFrames : \A ch \in Channels :
          host0.keys[b][ch][f] = NoKey

====
